---- MODULE Spec2Model ----
(***************************************************************************)
(* Artifact-generation pipeline of the BioAcoustic dashboard:              *)
(*   lib/audio_processing/file_manager.py      (AudioFileManager)          *)
(*   lib/audio_processing/segment_generator.py (AudioSegmentGenerator)     *)
(*   lib/audio_processing/spectrogram_generator.py (SpectrogramGenerator)  *)
(*   lib/audio_processing/processing_manager.py (ProcessingManager)        *)
(*   lib/db/database.py                        (delete_session)            *)
(*                                                                         *)
(* Text values (time strings, session names, species names) are sequences  *)
(* of one-character strings.  Seconds are integers in units of 1/Unit s.   *)
(***************************************************************************)
EXTENDS Integers, Sequences, FiniteSets, TLC

\* ------------------------------------------------------------------ bounds
NumDet == 3          \* detection rows in the record store (ids 1..NumDet)
MaxRuns == 3         \* per-detection pipeline executions in one behaviour
MaxSingles == 2      \* single-item calls in one behaviour
MaxEnv == 1          \* external events (locks, deletions, outages) in one behaviour
MaxClock == 2        \* the unix clock takes the values 1..MaxClock
MaxBatch == 2        \* batch_size ranges over 1..MaxBatch
MaxMin == 10         \* minutes of the time encodings range over 0..MaxMin
MaxSec == 26         \* seconds of the time encodings range over 0..MaxSec
MaxWinStart == 12    \* window starts range over 0..MaxWinStart half seconds
MaxSources == 2      \* recordings present in one search
MaxNameLen == 102    \* session names have 0..MaxNameLen characters
MaxPathLen == 4      \* paths below the database directory have 0..MaxPathLen characters
MaxCalls == 3        \* calls of generate_spectrogram in one run of the renderer
MaxForeign == 2      \* figures other code holds open when the renderer starts
NumProc == 2         \* managers that process the same detection concurrently
MaxConcRuns == 3     \* pipeline runs they start altogether
MaxWinLen == 5       \* window lengths range over 1..MaxWinLen half seconds

\* ------------------------------------------------------- program constants
ContextSeconds == 5          \* AudioSegmentGenerator.context_seconds
MaxDirLen == 100             \* generate_session_directory_name truncation

Min(a, b) == IF a < b THEN a ELSE b

\* ---------------------------------------------------------------- strings
Digits == <<"0", "1", "2", "3", "4", "5", "6", "7", "8", "9">>

IsDigit(c) == \E i \in 1..10 : Digits[i] = c

DigitVal(c) == (CHOOSE i \in 1..10 : Digits[i] = c) - 1

Contains(s, c) == \E i \in 1..Len(s) : s[i] = c

Count(s, c) == Cardinality({i \in 1..Len(s) : s[i] = c})

\* str.replace(c, '')
RECURSIVE Remove(_, _)
Remove(s, c) ==
    IF s = <<>> THEN <<>>
    ELSE IF Head(s) = c THEN Remove(Tail(s), c)
    ELSE <<Head(s)>> \o Remove(Tail(s), c)

\* str.strip() (the only whitespace character of the alphabet is " ")
RECURSIVE LStrip(_)
LStrip(s) == IF s # <<>> /\ Head(s) = " " THEN LStrip(Tail(s)) ELSE s

RECURSIVE RStrip(_)
RStrip(s) ==
    IF s # <<>> /\ s[Len(s)] = " " THEN RStrip(SubSeq(s, 1, Len(s) - 1)) ELSE s

Strip(s) == RStrip(LStrip(s))

\* value of a non-empty digit string
RECURSIVE DigitsValue(_)
DigitsValue(s) ==
    IF s = <<>> THEN 0
    ELSE DigitsValue(SubSeq(s, 1, Len(s) - 1)) * 10 + DigitVal(s[Len(s)])

AllDigits(s) == \A i \in 1..Len(s) : IsDigit(s[i])

RECURSIVE Pow10(_)
Pow10(n) == IF n = 0 THEN 1 ELSE 10 * Pow10(n - 1)

FracDigits == 3              \* decimals kept by the model's seconds values

Unit == Pow10(FracDigits)    \* ticks per second

\* Results of the parsers: ok = FALSE stands for a raised ValueError.
ParseFail == [ok |-> FALSE, v |-> 0]

ParseOk(v) == [ok |-> TRUE, v |-> v]

\* text.split(c) when c occurs exactly once
SplitAt(s, c) ==
    LET p == CHOOSE i \in 1..Len(s) : s[i] = c
    IN  <<SubSeq(s, 1, p - 1), SubSeq(s, p + 1, Len(s))>>

\* int(text) of a stripped text: an optional sign, at least one digit
IntOf(t) ==
    LET neg == t # <<>> /\ t[1] = "-"
        body == IF t # <<>> /\ (t[1] = "-" \/ t[1] = "+") THEN Tail(t) ELSE t
    IN  IF body # <<>> /\ AllDigits(body)
        THEN ParseOk(IF neg THEN 0 - DigitsValue(body) ELSE DigitsValue(body))
        ELSE ParseFail

\* int(text): surrounding blanks are ignored
PyInt(s) == IntOf(Strip(s))

\* the value of a decimal literal with the point at position p of body
\* (p = Len(body) + 1: no point), at most FracDigits decimals
Decimal(neg, ip, fp) ==
    IF AllDigits(ip) /\ AllDigits(fp) /\ Len(ip) + Len(fp) > 0 /\ Len(fp) <= FracDigits
    THEN ParseOk((IF neg THEN 0 - 1 ELSE 1)
                 * (DigitsValue(ip) * Unit + DigitsValue(fp) * Pow10(FracDigits - Len(fp))))
    ELSE ParseFail

\* float(text) of a stripped text, for decimal literals: optional sign,
\* digits with at most one point and at least one digit
FloatOf(t) ==
    LET neg == t # <<>> /\ t[1] = "-"
        body == IF t # <<>> /\ (t[1] = "-" \/ t[1] = "+") THEN Tail(t) ELSE t
    IN  IF Count(body, ".") = 1 THEN Decimal(neg, SplitAt(body, ".")[1], SplitAt(body, ".")[2])
        ELSE IF Count(body, ".") = 0 THEN Decimal(neg, body, <<>>)
        ELSE ParseFail

\* float(text): surrounding blanks are ignored
PyFloat(s) == FloatOf(Strip(s))

\* -------------------------------------------------------- column values
\* A column value is NULL, a number (ticks) or a text.
NullVal == [t |-> "null", n |-> 0, s |-> <<>>]

Num(n) == [t |-> "num", n |-> n, s |-> <<>>]

Str(s) == [t |-> "str", n |-> 0, s |-> s]

\* variant: the minutes are not scaled
MinutesSeconds_NoScale(m, s) ==
    IF m.ok /\ s.ok THEN ParseOk((m.v + s.v) * Unit) ELSE ParseFail

\* minutes * 60 + seconds of two parsed integers
MinutesSeconds(m, s) ==
    IF m.ok /\ s.ok THEN ParseOk((m.v * 60 + s.v) * Unit) ELSE ParseFail

\* "<m>m<s>s" and "<m>:<s>" branches of _parse_time_value
MinSec(parts) == MinutesSeconds(PyInt(parts[1]), PyInt(parts[2]))

\* the three patterns tried in turn: the first that parses is returned
FirstOk(p1, p2, p3) ==
    IF p1.ok THEN p1 ELSE IF p2.ok THEN p2 ELSE IF p3.ok THEN p3 ELSE ParseFail

\* _parse_time_value on a stripped text
ParseTimeText(time_str) ==
    FirstOk(IF Contains(time_str, "m") /\ Contains(time_str, "s")
               /\ Count(Remove(time_str, "s"), "m") = 1
            THEN MinSec(SplitAt(Remove(time_str, "s"), "m")) ELSE ParseFail,
            PyFloat(time_str),
            IF Count(time_str, ":") = 1 THEN MinSec(SplitAt(time_str, ":")) ELSE ParseFail)

\* AudioFileManager._parse_time_value
_parse_time_value(tv) ==
    IF tv.t = "num" THEN ParseOk(tv.n)
    ELSE IF tv.t = "str" THEN ParseTimeText(Strip(tv.s))
    ELSE ParseFail

\* ------------------------------------------------------------ file locator
\* Source recordings are files [dir, stem, ext] of the project tree; "failed"
\* stands for every directory that is not one of the two priority ones.
SearchDirs == <<"completed", "inbox">>

AudioExtensions == <<"wav", "mp3", "flac", "m4a", "ogg">>

TreeDirs == {"completed", "inbox", "failed"}

\* Path.rglob: the file name matches the pattern; "?" stands for any one
\* character (of the wildcards of the pattern language only "?" is modelled)
GlobMatch(pattern, name) ==
    /\ Len(pattern) = Len(name)
    /\ \A k \in 1..Len(pattern) : pattern[k] = "?" \/ pattern[k] = name[k]

\* first index of a sequence of sets that is non-empty, 0 if none
FirstNonEmpty(sq) ==
    IF \E i \in 1..Len(sq) : sq[i] # {}
    THEN CHOOSE i \in 1..Len(sq) : sq[i] # {} /\ \A j \in 1..(i - 1) : sq[j] = {}
    ELSE 0

\* AudioFileManager.find_source_audio_file: the set of files the call can
\* return (empty = None).  The priority loop is directory-major; the rglob
\* fallback is extension-major and its order inside one extension is the
\* directory iteration order of the platform.
find_source_audio_file(stem, srcs) ==
    LET prio == [k \in 1..(Len(SearchDirs) * Len(AudioExtensions)) |->
                   {f \in srcs :
                      /\ f.stem = stem
                      /\ f.dir = SearchDirs[((k - 1) \div Len(AudioExtensions)) + 1]
                      /\ f.ext = AudioExtensions[((k - 1) % Len(AudioExtensions)) + 1]}]
        tree == [k \in 1..Len(AudioExtensions) |->
                   {f \in srcs : GlobMatch(stem, f.stem) /\ f.ext = AudioExtensions[k]}]
        a == FirstNonEmpty(prio)
        b == FirstNonEmpty(tree)
    IN  IF a # 0 THEN prio[a] ELSE IF b # 0 THEN tree[b] ELSE {}

Lower == {"a", "b", "c", "d", "e", "f", "g", "h", "i", "j", "k", "l", "m",
          "n", "o", "p", "q", "r", "s", "t", "u", "v", "w", "x", "y", "z"}

Upper == {"A", "B", "C", "D", "E", "F", "G", "H", "I", "J", "K", "L", "M",
          "N", "O", "P", "Q", "R", "S", "T", "U", "V", "W", "X", "Y", "Z"}

SafeChars == Lower \cup Upper \cup {Digits[i] : i \in 1..10} \cup {"_", "-"}

\* variant: the sanitized name is not truncated
generate_session_directory_name_NoTruncate(session_name) ==
    [k \in 1..Len(session_name) |->
       IF session_name[k] \in SafeChars THEN session_name[k] ELSE "_"]

\* AudioFileManager.generate_session_directory_name
generate_session_directory_name(session_name) ==
    LET safe_name == [i \in 1..Len(session_name) |->
                        IF session_name[i] \in SafeChars THEN session_name[i] ELSE "_"]
    IN  IF Len(safe_name) > MaxDirLen THEN SubSeq(safe_name, 1, MaxDirLen) ELSE safe_name

\* ------------------------------------------------------------- validation
RequiredFields == <<"filename", "session_name", "start_time_seconds", "end_time_seconds">>

Err(rule, field) == [rule |-> rule, field |-> field]

RECURSIVE MissingFields(_, _)
MissingFields(d, k) ==
    IF k > Len(RequiredFields) THEN <<>>
    ELSE (IF d[RequiredFields[k]].t = "null"
          THEN <<Err("missing_field", RequiredFields[k])>> ELSE <<>>)
         \o MissingFields(d, k + 1)

\* variant: the second range check is an elif of the first
RangeErrors_FirstOnly(start_time, end_time) ==
    IF ~start_time.ok \/ ~end_time.ok THEN <<Err("time_parse", "")>>
    ELSE IF start_time.v < 0 THEN <<Err("negative_start", "")>>
    ELSE IF end_time.v <= start_time.v THEN <<Err("end_before_start", "")>>
    ELSE <<>>

\* the two range checks on the parsed times, or the entry of the handler
\* when one of them did not parse
RangeErrors(start_time, end_time) ==
    IF ~start_time.ok \/ ~end_time.ok THEN <<Err("time_parse", "")>>
    ELSE (IF start_time.v < 0 THEN <<Err("negative_start", "")>> ELSE <<>>)
         \o (IF end_time.v <= start_time.v THEN <<Err("end_before_start", "")>> ELSE <<>>)

\* the try block around the two time parses and the two range checks
TimeErrors(d) ==
    RangeErrors(_parse_time_value(d.start_time_seconds),
                _parse_time_value(d.end_time_seconds))

\* the session-name check; a non-text, non-zero value has no strip() and the
\* AttributeError is turned into an entry by the outer handler
SessionErrors(d) ==
    LET session_name == d.session_name
    IN  IF session_name.t = "str"
        THEN (IF Strip(session_name.s) = <<>> THEN <<Err("blank_session", "")>> ELSE <<>>)
        ELSE IF session_name.n = 0 THEN <<Err("blank_session", "")>>
        ELSE <<Err("exception", "")>>

\* the source-file check
SourceErrors(d, srcs) ==
    IF find_source_audio_file(d.filename.s, srcs) = {}
    THEN <<Err("source_not_found", "")>> ELSE <<>>

\* the pair returned: after the required-field check when a field is missing,
\* at the end otherwise
Validation(missing, errors) ==
    IF missing # <<>> THEN [valid |-> FALSE, errors |-> missing]
    ELSE [valid |-> errors = <<>>, errors |-> errors]

\* variant: only the first violated rule is returned
validate_file_paths_First(d, srcs) ==
    LET first(sq) == SubSeq(sq, 1, Min(1, Len(sq)))
    IN  Validation(first(MissingFields(d, 1)),
                   first(SourceErrors(d, srcs) \o TimeErrors(d) \o SessionErrors(d)))

\* AudioFileManager.validate_file_paths
validate_file_paths(d, srcs) ==
    Validation(MissingFields(d, 1),
               SourceErrors(d, srcs) \o TimeErrors(d) \o SessionErrors(d))

\* ------------------------------------------------------------ artifacts
\* An artifact path [root, kind, dir, id, sp, conf, ts] stands for
\*   [<root>/]<kind>/<dir>/detection_<id:03d>_<sp>_<conf:.2f>[_<ts>].<wav|png>
\* ts = 0 is the name without timestamp suffix; root = "" is a
\* storage-relative path, any other root the file below that directory of
\* the project.
NullPath ==
    [root |-> "", kind |-> "null", dir |-> <<>>, id |-> 0, sp |-> <<>>, conf |-> 0,
     ts |-> 0]

\* the empty string the generators return as path on failure
EmptyPath == [NullPath EXCEPT !.kind = "empty"]

\* name of the directory that holds the database file (db_path.parent); the
\* generators write below it
VARIABLE db_dir         \* name of the directory that holds the database file

DbDirName == db_dir

RECURSIVE Filter(_, _)
Filter(s, keep) ==
    IF s = <<>> THEN <<>>
    ELSE (IF Head(s) \in keep THEN <<Head(s)>> ELSE <<>>) \o Filter(Tail(s), keep)

\* characters of the model alphabet for which c.isalnum() or c in "ー_-"
SpeciesChars ==
    Lower \cup Upper \cup {Digits[i] : i \in 1..10} \cup {"é", "カ", "ッ", "コ"}
      \cup {"ー", "_", "-"}

\* "{confidence:.2f}" of a confidence given in 1/1000 (inputs are no exact halves)
FormatConfidence(c) == (c + 5) \div 10

\* AudioSegmentGenerator._generate_filename
_generate_filename(detection_id, species_name, confidence) ==
    [root |-> "", kind |-> "audio_segments", dir |-> <<>>, id |-> detection_id,
     sp |-> Filter(species_name, SpeciesChars), conf |-> FormatConfidence(confidence),
     ts |-> 0]

\* variant: the species name is not sanitized
_generate_filename_png_RawSpecies(detection_id, species_name, confidence) ==
    [root |-> "", kind |-> "spectrograms", dir |-> <<>>, id |-> detection_id,
     sp |-> species_name, conf |-> FormatConfidence(confidence), ts |-> 0]

\* SpectrogramGenerator._generate_filename
_generate_filename_png(detection_id, species_name, confidence) ==
    [root |-> "", kind |-> "spectrograms", dir |-> <<>>, id |-> detection_id,
     sp |-> Filter(species_name, SpeciesChars), conf |-> FormatConfidence(confidence),
     ts |-> 0]

\* variant: the session directory is emptied before the segment is written
_extract_segment_librosa_ClearsDirectory(output_path, fs, lk, clock, fault) ==
    LET exists == output_path \in fs
        denied == exists /\ output_path \in lk
        wav_output == IF denied THEN [output_path EXCEPT !.ts = clock] ELSE output_path
        fs1 == {f \in fs : f.kind # output_path.kind \/ f.dir # output_path.dir \/ f \in lk}
    IN  IF "extract" \in fault
        THEN [ok |-> FALSE, path |-> output_path, files |-> fs1, denied |-> denied]
        ELSE [ok |-> TRUE, path |-> wav_output, files |-> fs1 \cup {wav_output},
              denied |-> denied]

\* variant: an existing target is never deleted, the timestamp name is used
\* whenever the target exists
_extract_segment_librosa_AlwaysSuffix(output_path, fs, lk, clock, fault) ==
    LET exists == output_path \in fs
        wav_output == IF exists THEN [output_path EXCEPT !.ts = clock] ELSE output_path
    IN  IF "extract" \in fault
        THEN [ok |-> FALSE, path |-> output_path, files |-> fs,
              denied |-> exists /\ output_path \in lk]
        ELSE [ok |-> TRUE, path |-> wav_output, files |-> fs \cup {wav_output},
              denied |-> exists /\ output_path \in lk]

\* AudioSegmentGenerator._extract_segment_librosa.  "extract" in fault: the
\* decode (librosa.load) or the write (sf.write) raises.  Returns the success
\* flag, the path actually used and the files.
_extract_segment_librosa(output_path, fs, lk, clock, fault) ==
    LET exists == output_path \in fs
        denied == exists /\ output_path \in lk
        wav_output == IF denied THEN [output_path EXCEPT !.ts = clock] ELSE output_path
        fs1 == IF exists /\ ~denied THEN fs \ {output_path} ELSE fs
    IN  IF "extract" \in fault
        THEN [ok |-> FALSE, path |-> output_path, files |-> fs1, denied |-> denied]
        ELSE [ok |-> TRUE, path |-> wav_output, files |-> fs1 \cup {wav_output},
              denied |-> denied]

\* variant: the relative path is built from the requested file name
generate_segment_RequestedName(source, session_name, detection_id, species, confidence, fs, lk, clock, fault) ==
    IF source = {} \/ species.t # "str"
    THEN [ok |-> FALSE, rel |-> EmptyPath, files |-> fs, denied |-> FALSE]
    ELSE LET output_path == [_generate_filename(detection_id, species.s, confidence)
                               EXCEPT !.dir = session_name, !.root = DbDirName]
             x == _extract_segment_librosa(output_path, fs, lk, clock, fault)
             relative_path == [output_path EXCEPT !.root = ""]
         IN  IF x.ok
             THEN [ok |-> TRUE, rel |-> relative_path, files |-> x.files,
                   denied |-> x.denied]
             ELSE [ok |-> FALSE, rel |-> EmptyPath, files |-> x.files, denied |-> x.denied]

\* AudioSegmentGenerator.generate_segment.  A NULL species name makes
\* _generate_filename raise, which the handler turns into a failure.
generate_segment(source, session_name, detection_id, species, confidence, fs, lk, clock, fault) ==
    IF source = {} \/ species.t # "str"
    THEN [ok |-> FALSE, rel |-> EmptyPath, files |-> fs, denied |-> FALSE]
    ELSE LET output_path == [_generate_filename(detection_id, species.s, confidence)
                               EXCEPT !.dir = session_name, !.root = DbDirName]
             x == _extract_segment_librosa(output_path, fs, lk, clock, fault)
             relative_path == [x.path EXCEPT !.root = ""]
         IN  IF x.ok
             THEN [ok |-> TRUE, rel |-> relative_path, files |-> x.files,
                   denied |-> x.denied]
             ELSE [ok |-> FALSE, rel |-> EmptyPath, files |-> x.files, denied |-> x.denied]

\* SpectrogramGenerator.generate_spectrogram ("render": the mel computation
\* or savefig raises inside _create_melspectrogram)
generate_spectrogram(audio_segment_path, session_name, detection_id, species, confidence, fs, fault) ==
    IF audio_segment_path \notin fs \/ species.t # "str" \/ "render" \in fault
    THEN [ok |-> FALSE, rel |-> EmptyPath, files |-> fs]
    ELSE LET output_path == [_generate_filename_png(detection_id, species.s, confidence)
                               EXCEPT !.dir = session_name, !.root = DbDirName]
         IN  [ok |-> TRUE, rel |-> [output_path EXCEPT !.root = ""],
              files |-> fs \cup {output_path}]

\* variant: a NULL spectrogram path leaves the stored one in place
_update_detection_paths_KeepSpectrogram(rw, detection_id, audio_path, spectrogram_path, db) ==
    IF db /\ detection_id \in DOMAIN rw
    THEN [ok |-> TRUE,
          rows |-> [rw EXCEPT ![detection_id].audio_segment_path = audio_path,
                              ![detection_id].spectrogram_path =
                                 IF spectrogram_path.kind = "null" THEN @
                                 ELSE spectrogram_path]]
    ELSE [ok |-> FALSE, rows |-> rw]

\* variant: the UPDATE has no WHERE clause
_update_detection_paths_AllRows(rw, detection_id, audio_path, spectrogram_path, db) ==
    IF db /\ detection_id \in DOMAIN rw
    THEN [ok |-> TRUE,
          rows |-> [id \in DOMAIN rw |->
                      [rw[id] EXCEPT !.audio_segment_path = audio_path,
                                     !.spectrogram_path = spectrogram_path]]]
    ELSE [ok |-> FALSE, rows |-> rw]

\* ProcessingManager._update_detection_paths: one UPDATE of both columns;
\* db = FALSE is a record store that raises on connect/execute.
_update_detection_paths(rw, detection_id, audio_path, spectrogram_path, db) ==
    IF db /\ detection_id \in DOMAIN rw
    THEN [ok |-> TRUE,
          rows |-> [rw EXCEPT ![detection_id].audio_segment_path = audio_path,
                              ![detection_id].spectrogram_path = spectrogram_path]]
    ELSE [ok |-> FALSE, rows |-> rw]

\* ------------------------------------------------------------------ state
VARIABLES
    rows,               \* bird_detections: id -> row, for the ids that have a row
    files,              \* artifact files below the artifacts root
    locked,             \* artifact files another process holds exclusively open
    sources,            \* source recordings in the project tree
    now,                \* int(time.time()) when it was last read
    dbOk,               \* FALSE while sqlite3 raises (database locked or unreadable)
    enable_spectrogram, \* ProcessingManager.enable_spectrogram
    stats,              \* ProcessingManager.stats
    pc,                 \* "idle", or "bulk" inside the batch loop
    pending,            \* pending_detections of the running bulk call
    i,                  \* the batch loop's index i
    j,                  \* items of the current batch already processed
    batch_size,         \* argument of the running bulk call
    progress,           \* last progress line: <<processed_so_far, total_count>>
    attempted,          \* ids passed to _process_single_detection by the bulk call
    singles,            \* single-item calls so far
    ret,                \* value returned by the last entry-point call
    last,               \* locals of the last per-detection pipeline run at its return
    runs,               \* per-detection pipeline runs so far
    envn,               \* external events so far
    vIn,                \* argument of the call of a pure function under test
    vOut                \* its result

vars == <<db_dir, rows, files, locked, sources, now, dbOk, enable_spectrogram, stats, pc,
          pending, i, j, batch_size, progress, attempted, singles, ret, last,
          runs, envn, vIn, vOut>>

Ids == 1..NumDet

Profiles == {"valid", "nulltime", "badtime"}

\* The imported detections.  Detections 1 and 2 share session, species and
\* confidence; odd and even ids refer to different recordings; the session
\* names of ids above 2 differ from the first one but sanitize to the same
\* directory name.
Detection(id, profile) ==
    [id |-> id,
     session_name |-> Str(IF id <= 2 THEN <<"s", " ", "1">> ELSE <<"s", "_", "1">>),
     filename |-> Str(IF id % 2 = 1 THEN <<"A">> ELSE <<"B">>),
     start_time_seconds |-> IF profile = "badtime" THEN Str(<<"x">>)
                            ELSE IF id % 2 = 0 THEN Str(<<"1", "m", "4", "0", "s">>)
                            ELSE Num(100 * Unit),
     end_time_seconds |-> IF profile = "nulltime" THEN NullVal ELSE Num(102 * Unit),
     common_name |-> Str(<<"C", "o", " ", "c", "k">>),
     confidence |-> 873,
     created_at |-> (2 * id) % 3,
     audio_segment_path |-> NullPath,
     spectrogram_path |-> NullPath,
     quality_status |-> "pending"]

SourceFile(stem) == [dir |-> "completed", stem |-> stem, ext |-> "wav"]

Stems == {<<"A">>, <<"B">>}

ToggleStems == {<<"B">>}      \* recordings that come and go

NoMsg == [kind |-> "none", id |-> 0, errs |-> <<>>]

Msg(kind, id, errs) == [kind |-> kind, id |-> id, errs |-> errs]

\* ProcessingManager.__init__ / reset_processing_stats (total_pending = -1: key absent)
InitStats ==
    [processed_count |-> 0, success_count |-> 0, audio_success |-> 0,
     spectrogram_success |-> 0, error_count |-> 0, errors |-> <<>>,
     total_pending |-> 0 - 1]

NoRun ==
    [id |-> 0, ok |-> FALSE, msg |-> NoMsg, fault |-> {}, step |-> "none",
     audio_success |-> FALSE, audio_path |-> NullPath, denied |-> FALSE,
     spec_success |-> FALSE, spectrogram_path |-> NullPath,
     update_success |-> FALSE, pre |-> {}]

NoDetection == Detection(0, "valid")

NoRet == [kind |-> "none", ok |-> FALSE, msg |-> NoMsg]

Ret(kind, ok, msg) == [kind |-> kind, ok |-> ok, msg |-> msg]

NoCall == [valid |-> FALSE, errors |-> <<>>]

PipelineInit ==
    /\ db_dir = "database"
    /\ files = {}
    /\ locked = {}
    /\ sources = {SourceFile(s) : s \in Stems}
    /\ now = 1
    /\ dbOk = TRUE
    /\ stats = InitStats
    /\ pc = "idle"
    /\ pending = <<>>
    /\ i = 0
    /\ j = 0
    /\ batch_size = 1
    /\ progress = <<0, 0>>
    /\ attempted = <<>>
    /\ singles = 0
    /\ ret = NoRet
    /\ last = NoRun
    /\ runs = 0
    /\ envn = 0

Init ==
    /\ PipelineInit
    /\ enable_spectrogram \in BOOLEAN
    /\ \E prof \in [Ids -> Profiles] :
         /\ \A id \in Ids : id # 3 => prof[id] = "valid"
         /\ rows = [id \in Ids |-> Detection(id, prof[id])]
    /\ vIn = NoDetection
    /\ vOut = NoCall

\* ------------------------------------------------- per-detection pipeline
Faults == {{}, {"locate"}, {"extract"}, {"render"}, {"persist"},
           {"extract", "persist"}}

AudioArtifacts(fs, id) == {f \in fs : f.kind = "audio_segments" /\ f.id = id}

\* variant: the failure is counted but its message is not appended
CountError_NoAppend(st, m) == [st EXCEPT !.error_count = @ + 1]

\* stats after a failure return: error_count and errors grow by one
CountError(st, m) ==
    [st EXCEPT !.error_count = @ + 1, !.errors = Append(@, m)]

\* variant: the result of the update is not consulted for a written segment
Verdict_AudioOnly(update_success, audio_success) ==
    IF audio_success THEN "done"
    ELSE IF update_success THEN "audio_failed" ELSE "db_update_failed"

\* the result branches after the update (lines 220-235)
Verdict(update_success, audio_success) ==
    IF update_success
    THEN (IF audio_success THEN "done" ELSE "audio_failed")
    ELSE "db_update_failed"

\* variant: the renderer's path is kept whether or not it succeeded
SpectrogramPath_Unconditional(spec_success, spec_rel_path) == spec_rel_path

\* the value kept in spectrogram_path after the render step (lines 175, 208-213)
SpectrogramPath(spec_success, spec_rel_path) ==
    IF spec_success THEN spec_rel_path ELSE NullPath

\* AudioFileManager.resolve_relative_path: database_dir / relative_path,
\* database_dir being <project root>/database
resolve_relative_path(relative_path) == [relative_path EXCEPT !.root = "database"]

\* variant: an early return does not count the item as processed
EarlyReturn_NotProcessed(detection_id, fault, kind, errs, step) ==
    LET m == Msg(kind, detection_id, errs)
    IN  [ok |-> FALSE, msg |-> m, rows |-> rows, files |-> files,
         stats |-> CountError(stats, m),
         loc |-> [NoRun EXCEPT !.id = detection_id, !.msg = m, !.fault = fault,
                               !.step = step,
                               !.pre = AudioArtifacts(files, detection_id)]]

\* a return before the extraction: a failed validation, a missing source
\* file, or the handler of an exception; only the statistics change
EarlyReturn(detection_id, fault, kind, errs, step) ==
    LET m == Msg(kind, detection_id, errs)
    IN  [ok |-> FALSE, msg |-> m, rows |-> rows, files |-> files,
         stats |-> CountError([stats EXCEPT !.processed_count = @ + 1], m),
         loc |-> [NoRun EXCEPT !.id = detection_id, !.msg = m, !.fault = fault,
                               !.step = step,
                               !.pre = AudioArtifacts(files, detection_id)]]

\* the result branches after the update, with the locals at the return
Updated(detection_id, fault, seg, spec, audio_path, spectrogram_path, st, upd) ==
    LET verdict == Verdict(upd.ok, seg.ok)
        m == Msg(verdict, detection_id, <<>>)
    IN  [ok |-> verdict = "done", msg |-> m, rows |-> upd.rows, files |-> spec.files,
         stats |-> IF verdict = "done" THEN [st EXCEPT !.success_count = @ + 1]
                   ELSE CountError(st, m),
         loc |-> [id |-> detection_id, ok |-> verdict = "done", msg |-> m,
                  fault |-> fault, step |-> "persist",
                  audio_success |-> seg.ok, audio_path |-> audio_path,
                  denied |-> seg.denied,
                  spec_success |-> spec.ok, spectrogram_path |-> spectrogram_path,
                  update_success |-> upd.ok,
                  pre |-> AudioArtifacts(files, detection_id)]]

\* the update of the two path columns with what the two generators returned
Rendered(detection_id, fault, seg, spec, st) ==
    LET audio_path == IF seg.ok THEN seg.rel ELSE NullPath
        spectrogram_path == SpectrogramPath(spec.ok, spec.rel)
    IN  Updated(detection_id, fault, seg, spec, audio_path, spectrogram_path,
                IF spec.ok THEN [st EXCEPT !.spectrogram_success = @ + 1] ELSE st,
                _update_detection_paths(rows, detection_id, audio_path, spectrogram_path,
                                        dbOk /\ "persist" \notin fault))

\* the spectrogram step: taken when enabled and the segment was written
Extracted(detection, fault, session_dir_name, seg) ==
    Rendered(detection.id, fault, seg,
             IF enable_spectrogram /\ seg.ok
             THEN generate_spectrogram(resolve_relative_path(seg.rel), session_dir_name,
                                       detection.id, detection.common_name,
                                       detection.confidence, seg.files, fault)
             ELSE [ok |-> FALSE, rel |-> EmptyPath, files |-> seg.files],
             IF seg.ok
             THEN [stats EXCEPT !.processed_count = @ + 1, !.audio_success = @ + 1]
             ELSE [stats EXCEPT !.processed_count = @ + 1])

\* the extraction step, or the return when the source file is not found
Located(detection, fault, clock, source_audio_path) ==
    LET session_dir_name == generate_session_directory_name(detection.session_name.s)
    IN  IF source_audio_path = {}
        THEN EarlyReturn(detection.id, fault, "source_not_found", <<>>, "locate")
        ELSE Extracted(detection, fault, session_dir_name,
                       generate_segment(source_audio_path, session_dir_name, detection.id,
                                        detection.common_name, detection.confidence,
                                        files, locked, clock, fault))

\* the lookup of the source file, or the return when the validation failed
\* or the lookup raises
Validated(detection, fault, clock, v) ==
    IF ~v.valid THEN EarlyReturn(detection.id, fault, "validation", v.errors, "validate")
    ELSE IF "locate" \in fault
         THEN EarlyReturn(detection.id, fault, "exception", <<>>, "locate")
    ELSE Located(detection, fault, clock,
                 find_source_audio_file(detection.filename.s, sources))

\* ProcessingManager._process_single_detection(detection) in the current
\* state; fault is the set of steps that raise in this run ("locate":
\* find_source_audio_file, "extract": decode or write, "render": the
\* spectrogram, "persist": the UPDATE), clock the time read by a locked-file
\* fallback.  Yields the returned pair, the new record store, files and
\* statistics, and the locals at the return.
_process_single_detection(detection, fault, clock) ==
    Validated(detection, fault, clock, validate_file_paths(detection, sources))

\* variant: ORDER BY created_at DESC
_get_pending_detections_Desc ==
    LET P == {id \in DOMAIN rows : rows[id].audio_segment_path = NullPath}
        n == Cardinality(P)
    IN  IF ~dbOk THEN {<<>>}
        ELSE {[k \in 1..n |-> rows[f[k]]] :
                f \in {g \in [1..n -> P] :
                         /\ \A a, b \in 1..n : a # b => g[a] # g[b]
                         /\ \A a, b \in 1..n :
                              a < b => rows[g[a]].created_at >= rows[g[b]].created_at}}

\* variant: the query without its WHERE clause
_get_pending_detections_NoFilter ==
    LET P == DOMAIN rows
        n == Cardinality(P)
    IN  IF ~dbOk THEN {<<>>}
        ELSE {[k \in 1..n |-> rows[f[k]]] :
                f \in {g \in [1..n -> P] :
                         /\ \A a, b \in 1..n : a # b => g[a] # g[b]
                         /\ \A a, b \in 1..n :
                              a < b => rows[g[a]].created_at <= rows[g[b]].created_at}}

\* ProcessingManager._get_pending_detections: the lists the query can return
\* (rows of equal created_at come in an order the store chooses); the
\* handler turns a raising store into the empty list.
_get_pending_detections ==
    LET P == {id \in DOMAIN rows : rows[id].audio_segment_path = NullPath}
        n == Cardinality(P)
    IN  IF ~dbOk THEN {<<>>}
        ELSE {[k \in 1..n |-> rows[f[k]]] :
                f \in {g \in [1..n -> P] :
                         /\ \A a, b \in 1..n : a # b => g[a] # g[b]
                         /\ \A a, b \in 1..n :
                              a < b => rows[g[a]].created_at <= rows[g[b]].created_at}}

\* ProcessingManager._get_detection_by_id: the row, or None (found = FALSE)
\* when there is no such row or the store raises
_get_detection_by_id(detection_id) ==
    IF dbOk /\ detection_id \in DOMAIN rows
    THEN [found |-> TRUE, row |-> rows[detection_id]]
    ELSE [found |-> FALSE, row |-> NoDetection]

\* The steps a run of the pipeline reaches for a detection, hence the faults
\* that can strike it.
Strikes(detection, fault) ==
    /\ fault # {} => validate_file_paths(detection, sources).valid
    /\ "render" \in fault => enable_spectrogram
    /\ "persist" \in fault => dbOk

\* --------------------------------------------------------------- actions
\* process_all_pending_detections up to the first item (lines 72-91)
BulkStart(b) ==
    /\ pc = "idle"
    /\ \E p \in _get_pending_detections :
         IF Len(p) = 0
         THEN /\ pc' = "idle"
              /\ ret' = Ret("bulk", TRUE, NoMsg)
              /\ pending' = <<>>
              /\ batch_size' = 1
         ELSE /\ pc' = "bulk"
              /\ ret' = NoRet
              /\ pending' = p
              /\ batch_size' = b
    /\ i' = 0
    /\ j' = 0
    /\ attempted' = <<>>
    /\ progress' = <<0, 0>>
    /\ UNCHANGED <<db_dir, rows, files, locked, sources, now, dbOk, enable_spectrogram, stats,
                   singles, last, runs, envn, vIn, vOut>>

\* pending_detections[i:i + batch_size]
Batch(p, start, size) == SubSeq(p, start + 1, Min(start + size, Len(p)))

\* one iteration of the inner loop (line 94); after the last item of a batch
\* the progress line (96-99), after the last batch the final statistics
\* and the return (101-107)
BulkItem(fault, clock) ==
    /\ pc = "bulk"
    /\ runs < MaxRuns
    /\ locked = {} => clock = now
    /\ LET total_count == Len(pending)
           batch == Batch(pending, i, batch_size)
           detection == batch[j + 1]
           batchDone == j + 1 = Len(batch)
           allDone == batchDone /\ i + batch_size >= total_count
       IN  \E r \in {_process_single_detection(detection, fault, clock)} :
           /\ Strikes(detection, fault)
           /\ r.loc.denied \/ clock = now
           /\ now' = clock
           /\ rows' = r.rows
           /\ files' = r.files
           /\ last' = r.loc
           /\ attempted' = Append(attempted, [id |-> detection.id, ok |-> r.ok])
           /\ j' = IF batchDone THEN 0 ELSE j + 1
           /\ i' = IF allDone THEN 0 ELSE IF batchDone THEN i + batch_size ELSE i
           /\ pending' = IF allDone THEN <<>> ELSE pending
           /\ batch_size' = IF allDone THEN 1 ELSE batch_size
           /\ progress' = IF batchDone
                          THEN <<Min(i + batch_size, total_count), total_count>>
                          ELSE progress
           /\ stats' = IF allDone THEN [r.stats EXCEPT !.total_pending = total_count]
                       ELSE r.stats
           /\ pc' = IF allDone THEN "idle" ELSE "bulk"
           /\ ret' = IF allDone THEN Ret("bulk", TRUE, NoMsg) ELSE ret
    /\ runs' = runs + 1
    /\ UNCHANGED <<db_dir, locked, sources, dbOk, enable_spectrogram, singles, envn, vIn, vOut>>

\* process_single_detection(detection_id): the fetch, then either the
\* not-found return or the pipeline and its return
SingleCall(detection_id, fault, clock) ==
    /\ pc = "idle"
    /\ singles < MaxSingles
    /\ locked = {} => clock = now
    /\ \E detection \in {_get_detection_by_id(detection_id)} :
       \E r \in {_process_single_detection(detection.row, fault, clock)} :
           IF ~detection.found
           THEN /\ fault = {}
                /\ clock = now
                /\ ret' = Ret("single", FALSE, Msg("not_found", detection_id, <<>>))
                /\ UNCHANGED <<db_dir, rows, files, stats, last, now, runs>>
           ELSE /\ runs < MaxRuns
                /\ Strikes(detection.row, fault)
                /\ r.loc.denied \/ clock = now
                /\ now' = clock
                /\ rows' = r.rows
                /\ files' = r.files
                /\ stats' = r.stats
                /\ last' = r.loc
                /\ ret' = Ret("single", r.ok, r.msg)
                /\ runs' = runs + 1
    /\ singles' = singles + 1
    /\ UNCHANGED <<db_dir, locked, sources, dbOk, enable_spectrogram, pc, pending, i, j,
                   batch_size, progress, attempted, envn, vIn, vOut>>

\* BirdNetSimpleDB.delete_session, called by the viewer
DeleteSession(session_name) ==
    /\ envn < MaxEnv
    /\ dbOk
    /\ \E id \in DOMAIN rows : rows[id].session_name = session_name
    /\ rows' = [id \in {x \in DOMAIN rows : rows[x].session_name # session_name}
                  |-> rows[id]]
    /\ envn' = envn + 1
    /\ UNCHANGED <<db_dir, files, locked, sources, now, dbOk, enable_spectrogram, stats, pc,
                   pending, i, j, batch_size, progress, attempted, singles, ret, last,
                   runs, vIn, vOut>>

\* a reader opens an audio artifact exclusively, or closes it again
LockToggle(f) ==
    /\ envn < MaxEnv
    /\ f \in files
    /\ f.kind = "audio_segments"
    /\ locked' = IF f \in locked THEN locked \ {f} ELSE locked \cup {f}
    /\ envn' = envn + 1
    /\ UNCHANGED <<db_dir, rows, files, sources, now, dbOk, enable_spectrogram, stats, pc,
                   pending, i, j, batch_size, progress, attempted, singles, ret, last,
                   runs, vIn, vOut>>

\* the record store becomes unusable (locked by another writer), or usable again
DbToggle ==
    /\ envn < MaxEnv
    /\ dbOk' = ~dbOk
    /\ envn' = envn + 1
    /\ UNCHANGED <<db_dir, rows, files, locked, sources, now, enable_spectrogram, stats, pc,
                   pending, i, j, batch_size, progress, attempted, singles, ret, last,
                   runs, vIn, vOut>>

\* a source recording is removed from, or put into, audio/completed
SourceToggle(stem) ==
    /\ envn < MaxEnv
    /\ sources' = IF SourceFile(stem) \in sources
                  THEN sources \ {SourceFile(stem)} ELSE sources \cup {SourceFile(stem)}
    /\ envn' = envn + 1
    /\ UNCHANGED <<db_dir, rows, files, locked, now, dbOk, enable_spectrogram, stats, pc,
                   pending, i, j, batch_size, progress, attempted, singles, ret, last,
                   runs, vIn, vOut>>

SessionNames == {Str(<<"s", " ", "1">>), Str(<<"s", "_", "1">>)}

Next ==
    \/ \E b \in 1..MaxBatch : BulkStart(b)
    \/ \E fault \in Faults, clock \in now..MaxClock : BulkItem(fault, clock)
    \/ \E id \in Ids, fault \in Faults, clock \in now..MaxClock :
         SingleCall(id, fault, clock)
    \/ \E s \in SessionNames : DeleteSession(s)
    \/ \E f \in files : LockToggle(f)
    \/ DbToggle
    \/ \E stem \in ToggleStems : SourceToggle(stem)

Spec == Init /\ [][Next]_vars

\* ------------------------------------------- validate_file_paths alone
FilenameSamples == {NullVal, Str(<<"A">>), Str(<<"Z">>)}

SessionSamples == {NullVal, Str(<<>>), Str(<<" ">>), Str(<<"s", " ", "1">>)}

StartSamples ==
    {NullVal, Num(0 - 3 * Unit), Num(100 * Unit), Str(<<"x">>),
     Str(<<"1", "m", "4", "0", "s">>), Str(<<"-", "3">>)}

EndSamples ==
    {NullVal, Num(0 - 5 * Unit), Num(102 * Unit), Str(<<"x">>),
     Str(<<"1", ":", "4", "2">>), Str(<<"1", "0", "0", ".", "0">>)}

InitValidate ==
    /\ PipelineInit
    /\ enable_spectrogram = TRUE
    /\ rows = <<>>
    /\ vOut = NoCall
    /\ \E f \in FilenameSamples, sn \in SessionSamples, st \in StartSamples,
          en \in EndSamples :
         vIn = [NoDetection EXCEPT !.filename = f, !.session_name = sn,
                                   !.start_time_seconds = st, !.end_time_seconds = en]

\* a call validate_file_paths(vIn)
ValidateCall ==
    /\ vOut = NoCall
    /\ vOut' = validate_file_paths(vIn, sources)
    /\ UNCHANGED <<db_dir, rows, files, locked, sources, now, dbOk, enable_spectrogram, stats,
                   pc, pending, i, j, batch_size, progress, attempted, singles, ret,
                   last, runs, envn, vIn>>

NextValidate == ValidateCall

SpecValidate == InitValidate /\ [][NextValidate]_vars

\* ---------------------------------------------- _parse_time_value alone
\* str(n) of a non-negative integer
RECURSIVE DigitsOf(_)
DigitsOf(n) ==
    IF n < 10 THEN <<Digits[n + 1]>> ELSE DigitsOf(n \div 10) \o <<Digits[(n % 10) + 1]>>

TimeForms == {"ms", "colon", "decimal", "integer", "number"}

\* the encodings of m minutes and s seconds a time column can hold
TimeValue(m, s, form) ==
    CASE form = "ms" -> Str(DigitsOf(m) \o <<"m">> \o DigitsOf(s) \o <<"s">>)
      [] form = "colon" -> Str(DigitsOf(m) \o <<":">> \o DigitsOf(s))
      [] form = "decimal" -> Str(DigitsOf(m * 60 + s) \o <<".", "0">>)
      [] form = "integer" -> Str(DigitsOf(m * 60 + s))
      [] form = "number" -> Num((m * 60 + s) * Unit)

\* other column values: texts that are no time, texts near the three forms,
\* numbers that are no whole seconds
RawSamples ==
    {Str(<<>>), Str(<<"x">>), Str(<<"1", "m">>), Str(<<"1", "m", "s">>),
     Str(<<"m", "5", "s">>), Str(<<"1", "m", "s", "2">>), Str(<<"s", "1", "m", "2">>),
     Str(<<"1", ":", "2", ":", "3">>), Str(<<"1", ".", "2", ".", "3">>),
     Str(<<"a", ":", "1">>), Str(<<"1", "m", "2", "m", "3", "s">>),
     Str(<<" ", "7", " ">>), Str(<<"-", "1", "m", "5", "s">>), Str(<<"1", ".", "5">>),
     Num(0 - 3 * Unit), Num(Unit \div 2), NullVal}

NoParse == [ok |-> FALSE, v |-> 0 - 1]

InitParse ==
    /\ PipelineInit
    /\ enable_spectrogram = TRUE
    /\ rows = <<>>
    /\ vOut = NoParse
    /\ \/ \E m \in 0..MaxMin, s \in 0..MaxSec, form \in TimeForms :
            vIn = [m |-> m, s |-> s, form |-> form, value |-> TimeValue(m, s, form)]
       \/ \E raw \in RawSamples :
            vIn = [m |-> 0, s |-> 0, form |-> "raw", value |-> raw]

\* a call _parse_time_value(vIn.value)
ParseCall ==
    /\ vOut = NoParse
    /\ vOut' = _parse_time_value(vIn.value)
    /\ UNCHANGED <<db_dir, rows, files, locked, sources, now, dbOk, enable_spectrogram, stats,
                   pc, pending, i, j, batch_size, progress, attempted, singles, ret,
                   last, runs, envn, vIn>>

NextParse == ParseCall

SpecParse == InitParse /\ [][NextParse]_vars

\* ------------------------------------------------ the path conversions alone
\* the text of database_dir and os.sep (a POSIX build)
database_dir == <<"/", "d", "b">>

OsSep == "/"

ReplaceChar(s, old, new) == [k \in 1..Len(s) |-> IF s[k] = old THEN new ELSE s[k]]

FirstIndex(s, c) == CHOOSE k \in 1..Len(s) : s[k] = c /\ \A m \in 1..(k - 1) : s[m] # c

\* s.split("/")
RECURSIVE SplitSlash(_)
SplitSlash(s) ==
    IF ~Contains(s, "/") THEN <<s>>
    ELSE <<SubSeq(s, 1, FirstIndex(s, "/") - 1)>>
           \o SplitSlash(SubSeq(s, FirstIndex(s, "/") + 1, Len(s)))

\* "/".join(parts)
RECURSIVE JoinSlash(_)
JoinSlash(parts) ==
    IF parts = <<>> THEN <<>>
    ELSE IF Len(parts) = 1 THEN parts[1]
    ELSE parts[1] \o <<"/">> \o JoinSlash(Tail(parts))

IsNamePart(c) == c # <<>> /\ c # <<".">>

\* the root of a POSIX path text: "/", "//" for exactly two leading slashes, or none
RootOf(s) ==
    IF s = <<>> \/ s[1] # "/" THEN <<>>
    ELSE IF Len(s) >= 2 /\ s[2] = "/" /\ (Len(s) = 2 \/ s[3] # "/") THEN <<"/", "/">>
    ELSE <<"/">>

\* pathlib.Path(s): empty and "." components are dropped, ".." is kept
PurePath(s) == [root |-> RootOf(s), parts |-> SelectSeq(SplitSlash(s), IsNamePart)]

\* str(path)
StrPath(p) ==
    IF p.parts = <<>> THEN (IF p.root = <<>> THEN <<".">> ELSE p.root)
    ELSE p.root \o JoinSlash(p.parts)

\* a / b
JoinPath(a, b) ==
    IF b.root # <<>> THEN b ELSE [root |-> a.root, parts |-> a.parts \o b.parts]

\* path.relative_to(base): ok = FALSE stands for ValueError
RelativeTo(path, base) ==
    IF /\ path.root = base.root
       /\ Len(base.parts) <= Len(path.parts)
       /\ SubSeq(path.parts, 1, Len(base.parts)) = base.parts
    THEN [ok |-> TRUE,
          path |-> [root |-> <<>>,
                    parts |-> SubSeq(path.parts, Len(base.parts) + 1, Len(path.parts))]]
    ELSE [ok |-> FALSE, path |-> path]

\* variant: backslashes are kept
get_relative_path_KeepBackslash(absolute_path) ==
    StrPath(RelativeTo(PurePath(absolute_path), PurePath(database_dir)).path)

\* AudioFileManager.get_relative_path: the path below database_dir, or the
\* path itself when it is not below it, with "\\" replaced by "/"
get_relative_path(absolute_path) ==
    ReplaceChar(StrPath(RelativeTo(PurePath(absolute_path), PurePath(database_dir)).path),
                "\\", "/")

\* AudioFileManager.resolve_relative_path on the text of a path
resolve_relative_path_str(relative_path) ==
    StrPath(JoinPath(PurePath(database_dir),
                     PurePath(ReplaceChar(relative_path, "/", OsSep))))

PathChars == {"a", "/", ".", "\\"}

\* the texts of at most MaxPathLen characters
PathTexts == UNION {[1..n -> PathChars] : n \in 0..MaxPathLen}

NoPath == [called |-> FALSE, first |-> <<>>, back |-> <<>>]

InitPaths ==
    /\ PipelineInit
    /\ enable_spectrogram = TRUE
    /\ rows = <<>>
    /\ vOut = NoPath
    /\ \E t \in PathTexts :
         \/ vIn = [from |-> "relative", tail |-> t, path |-> t]
         \/ vIn = [from |-> "absolute", tail |-> t, path |-> database_dir \o <<"/">> \o t]

\* resolve_relative_path(get_relative_path(p)) for an absolute path p
AbsoluteRoundTrip ==
    /\ vOut = NoPath
    /\ vIn.from = "absolute"
    /\ \E r \in {get_relative_path(vIn.path)} :
         vOut' = [called |-> TRUE, first |-> r, back |-> resolve_relative_path_str(r)]
    /\ UNCHANGED <<db_dir, rows, files, locked, sources, now, dbOk, enable_spectrogram, stats,
                   pc, pending, i, j, batch_size, progress, attempted, singles, ret,
                   last, runs, envn, vIn>>

\* get_relative_path(resolve_relative_path(r)) for a stored path r
RelativeRoundTrip ==
    /\ vOut = NoPath
    /\ vIn.from = "relative"
    /\ \E a \in {resolve_relative_path_str(vIn.path)} :
         vOut' = [called |-> TRUE, first |-> a, back |-> get_relative_path(a)]
    /\ UNCHANGED <<db_dir, rows, files, locked, sources, now, dbOk, enable_spectrogram, stats,
                   pc, pending, i, j, batch_size, progress, attempted, singles, ret,
                   last, runs, envn, vIn>>

NextPaths == AbsoluteRoundTrip \/ RelativeRoundTrip

SpecPaths == InitPaths /\ [][NextPaths]_vars

\* --------------------------------------------------- the file names alone
\* variant: the id is not padded
FormatId_NoPad(detection_id) == DigitsOf(detection_id)

\* "{detection_id:03d}" of an id >= 0
FormatId(detection_id) ==
    IF detection_id < 10 THEN <<"0", "0">> \o DigitsOf(detection_id)
    ELSE IF detection_id < 100 THEN <<"0">> \o DigitsOf(detection_id)
    ELSE DigitsOf(detection_id)

\* the text of "{confidence:.2f}" for a confidence of h hundredths, h >= 0
TwoDecimals(h) ==
    DigitsOf(h \div 100) \o <<".", Digits[((h \div 10) % 10) + 1], Digits[(h % 10) + 1]>>

\* the f-string of _generate_filename: the file name of a generated path
FileNameText(p) ==
    <<"d", "e", "t", "e", "c", "t", "i", "o", "n", "_">> \o FormatId(p.id) \o <<"_">>
      \o p.sp \o <<"_">> \o TwoDecimals(p.conf)
      \o (IF p.kind = "audio_segments" THEN <<".", "w", "a", "v">>
                                        ELSE <<".", "p", "n", "g">>)

IdSamples == {1, 7, 42, 999, 1000, 12345}

SpeciesSamples ==
    {<<"C", "o", "m", "m", "o", "n", " ", "C", "u", "c", "k", "o", "o">>,
     <<"カ", "ッ", "コ", "ー">> , <<"a", "-", "b", "_", "c", "/", "d", ".", "é", "(", "2", ")">>,
     <<>>, <<" ", "ー", " ">>}

ConfidenceSamples == {0, 4, 50, 873, 996, 1000}

NoFilename == [called |-> FALSE, text |-> <<>>]

InitFilename ==
    /\ PipelineInit
    /\ enable_spectrogram = TRUE
    /\ rows = <<>>
    /\ vOut = NoFilename
    /\ \E id \in IdSamples, sp \in SpeciesSamples, c \in ConfidenceSamples,
          kind \in {"wav", "png"} :
         vIn = [id |-> id, species |-> sp, confidence |-> c, kind |-> kind]

\* a call of _generate_filename of the segment or the spectrogram generator
FilenameCall ==
    /\ vOut = NoFilename
    /\ \/ /\ vIn.kind = "wav"
          /\ vOut' = [called |-> TRUE,
                      text |-> FileNameText(_generate_filename(vIn.id, vIn.species,
                                                               vIn.confidence))]
       \/ /\ vIn.kind = "png"
          /\ vOut' = [called |-> TRUE,
                      text |-> FileNameText(_generate_filename_png(vIn.id, vIn.species,
                                                                   vIn.confidence))]
    /\ UNCHANGED <<db_dir, rows, files, locked, sources, now, dbOk, enable_spectrogram, stats,
                   pc, pending, i, j, batch_size, progress, attempted, singles, ret,
                   last, runs, envn, vIn>>

NextFilename == FilenameCall

SpecFilename == InitFilename /\ [][NextFilename]_vars

\* ---------------------------------------------------- the sanitizer alone
NamePatterns == {<<"s", " ", "1">>, <<"A", "/", "-", "_", "z", ".", "9">>, <<"a">>,
                 <<"_", "\\", ":">>}

\* the session name of n characters that repeats a pattern
NameOf(pat, n) == [k \in 1..n |-> pat[((k - 1) % Len(pat)) + 1]]

NoName == [called |-> FALSE, name |-> <<>>]

InitSanitize ==
    /\ PipelineInit
    /\ enable_spectrogram = TRUE
    /\ rows = <<>>
    /\ vOut = NoName
    /\ \E pat \in NamePatterns, n \in 0..MaxNameLen : vIn = NameOf(pat, n)

\* a call generate_session_directory_name(vIn)
SanitizeCall ==
    /\ vOut = NoName
    /\ vOut' = [called |-> TRUE, name |-> generate_session_directory_name(vIn)]
    /\ UNCHANGED <<db_dir, rows, files, locked, sources, now, dbOk, enable_spectrogram, stats,
                   pc, pending, i, j, batch_size, progress, attempted, singles, ret,
                   last, runs, envn, vIn>>

NextSanitize == SanitizeCall

SpecSanitize == InitSanitize /\ [][NextSanitize]_vars

\* ------------------------------------------------------ the locator alone
LocateStems == {<<"A">>, <<"?">>}

FileStems == {<<"A">>, <<"B">>, <<"?">>}

\* recordings that can exist in the project tree
SourceUniverse ==
    {[dir |-> d, stem |-> st, ext |-> AudioExtensions[k]] :
       d \in TreeDirs, st \in FileStems, k \in 1..Len(AudioExtensions)}

NoFile == [dir |-> "", stem |-> <<>>, ext |-> ""]

NoLocate == [called |-> FALSE, file |-> NoFile]

InitLocate ==
    /\ PipelineInit
    /\ enable_spectrogram = TRUE
    /\ rows = <<>>
    /\ vOut = NoLocate
    /\ \E st \in LocateStems, pick \in [1..MaxSources -> SourceUniverse \cup {NoFile}] :
          vIn = [stem |-> st, tree |-> {pick[k] : k \in 1..MaxSources} \ {NoFile}]

\* find_source_audio_file(vIn.stem) on a project tree that holds vIn.tree
LocateCall ==
    /\ vOut = NoLocate
    /\ \E fs \in {find_source_audio_file(vIn.stem, vIn.tree)} :
         \E f \in (IF fs = {} THEN {NoFile} ELSE fs) :
            vOut' = [called |-> TRUE, file |-> f]
    /\ UNCHANGED <<db_dir, rows, files, locked, sources, now, dbOk, enable_spectrogram, stats,
                   pc, pending, i, j, batch_size, progress, attempted, singles, ret,
                   last, runs, envn, vIn>>

NextLocate == LocateCall

SpecLocate == InitLocate /\ [][NextLocate]_vars

\* ------------------------------------------------ the requested slice alone
Max(a, b) == IF a > b THEN a ELSE b

\* variant: the start of the slice is not clamped at 0
SegmentWindow_NoClamp(start_time, end_time) ==
    [offset |-> start_time - ContextSeconds * Unit,
     duration |-> (end_time + ContextSeconds * Unit)
                    - (start_time - ContextSeconds * Unit)]

\* _extract_segment_librosa: segment_start and segment_duration, the offset
\* and duration passed to librosa.load
SegmentWindow(start_time, end_time) ==
    [offset |-> Max(0, start_time - ContextSeconds * Unit),
     duration |-> (end_time + ContextSeconds * Unit)
                    - Max(0, start_time - ContextSeconds * Unit)]

NoWindow == [offset |-> 0 - 1, duration |-> 0 - 1]

InitWindow ==
    /\ PipelineInit
    /\ enable_spectrogram = TRUE
    /\ rows = <<>>
    /\ vOut = NoWindow
    /\ \/ \E a \in 0..MaxWinStart, k \in 1..MaxWinLen :
            vIn = [start |-> a * (Unit \div 2), end |-> (a + k) * (Unit \div 2)]
       \/ vIn = [start |-> 100 * Unit, end |-> 102 * Unit]

\* the slice computed for the window vIn
WindowCall ==
    /\ vOut = NoWindow
    /\ vOut' = SegmentWindow(vIn.start, vIn.end)
    /\ UNCHANGED <<db_dir, rows, files, locked, sources, now, dbOk, enable_spectrogram, stats,
                   pc, pending, i, j, batch_size, progress, attempted, singles, ret,
                   last, runs, envn, vIn>>

NextWindow == WindowCall

SpecWindow == InitWindow /\ [][NextWindow]_vars

\* ------------------------------------------- two detections in both orders
\* The pipelines of two detections a < b are run as a, b; the record store,
\* the files and the statistics are put back as they were; then the pipelines
\* are run as b, a.  In both orders a run of a meets the faults fa and reads
\* the clock ca, a run of b meets fb and reads cb.
NoOrder == [phase |-> 0, snap |-> <<>>, ab |-> <<>>, res |-> <<>>]

InitOrder ==
    /\ PipelineInit
    /\ enable_spectrogram \in BOOLEAN
    /\ rows = [id \in Ids |-> Detection(id, "valid")]
    /\ vIn = NoDetection
    /\ vOut = NoOrder

\* earlier single-item calls and external events
OrderEarlier ==
    /\ vOut.phase = 0
    /\ \/ \E id \in Ids : SingleCall(id, {}, now)
       \/ \E f \in files : LockToggle(f)
       \/ DbToggle
       \/ \E stem \in ToggleStems : SourceToggle(stem)

OrderBegin(a, b, fa, fb, ca, cb) ==
    /\ vOut.phase = 0
    /\ a < b
    /\ Strikes(rows[a], fa)
    /\ Strikes(rows[b], fb)
    /\ vIn' = [a |-> a, b |-> b, fa |-> fa, fb |-> fb, ca |-> ca, cb |-> cb]
    /\ vOut' = [vOut EXCEPT !.phase = 1,
                            !.snap = [rows |-> rows, files |-> files, stats |-> stats]]
    /\ UNCHANGED <<db_dir, rows, files, locked, sources, now, dbOk, enable_spectrogram, stats,
                   pc, pending, i, j, batch_size, progress, attempted, singles, ret,
                   last, runs, envn>>

\* _process_single_detection for the next detection of the current order
OrderRun ==
    /\ vOut.phase \in {1, 2, 4, 5}
    /\ \E x \in {IF vOut.phase \in {1, 5}
                 THEN [id |-> vIn.a, fault |-> vIn.fa, clock |-> vIn.ca]
                 ELSE [id |-> vIn.b, fault |-> vIn.fb, clock |-> vIn.cb]} :
       \E r \in {_process_single_detection(rows[x.id], x.fault, x.clock)} :
          /\ rows' = r.rows
          /\ files' = r.files
          /\ stats' = r.stats
          /\ last' = r.loc
          /\ vOut' = [vOut EXCEPT !.phase = @ + 1,
                                  !.res = Append(@, [id |-> x.id, ok |-> r.ok,
                                                     msg |-> r.msg])]
    /\ UNCHANGED <<db_dir, locked, sources, now, dbOk, enable_spectrogram, pc, pending, i, j,
                   batch_size, progress, attempted, singles, ret, runs, envn, vIn>>

\* the outcome of the order a, b is kept and the starting point restored
OrderRestore ==
    /\ vOut.phase = 3
    /\ vOut' = [vOut EXCEPT !.phase = 4, !.ab = [rows |-> rows, files |-> files]]
    /\ rows' = vOut.snap.rows
    /\ files' = vOut.snap.files
    /\ stats' = vOut.snap.stats
    /\ UNCHANGED <<db_dir, locked, sources, now, dbOk, enable_spectrogram, pc, pending, i, j,
                   batch_size, progress, attempted, singles, ret, last, runs, envn, vIn>>

NextOrder ==
    \/ OrderEarlier
    \/ \E a \in Ids, b \in Ids, fa \in Faults, fb \in Faults,
          ca \in 1..MaxClock, cb \in 1..MaxClock : OrderBegin(a, b, fa, fb, ca, cb)
    \/ OrderRun
    \/ OrderRestore

SpecOrder == InitOrder /\ [][NextOrder]_vars

\* ------------------------------------------------------ the renderer alone
\* generate_spectrogram and _create_melspectrogram step by step.  vOut holds
\* the position in the call, the pyplot figures that are open (the number of
\* the call that created each, 0 for figures of other code; the last one is
\* the current figure), the calls so far, the last returned flag, the calls
\* that returned True and the step at which the last exception was raised.
RenderSteps == <<"load", "figure", "show", "decorate", "savefig", "close">>

StepAfter(pos) ==
    IF pos = "imshow" THEN "decorate"
    ELSE RenderSteps[(CHOOSE k \in 1..Len(RenderSteps) : RenderSteps[k] = pos) + 1]

\* variant: the handler closes nothing
HandlerFigures_NoClose(figs) == figs

\* the handler of _create_melspectrogram: plt.close('all')
HandlerFigures(figs) == <<>>

\* plt.close(): the current figure is closed
CloseCurrent(figs) == IF figs = <<>> THEN <<>> ELSE SubSeq(figs, 1, Len(figs) - 1)

InitRender ==
    /\ PipelineInit
    /\ enable_spectrogram = TRUE
    /\ rows = <<>>
    /\ vIn = [exists |-> TRUE]
    /\ \E n \in 0..MaxForeign :
         vOut = [pos |-> "idle", figs |-> [k \in 1..n |-> 0], calls |-> 0, ok |-> FALSE,
                 rendered |-> 0, raisedAt |-> "none"]

\* generate_spectrogram is called: the segment file is missing and the call
\* returns, or _create_melspectrogram is entered
RenderCall(exists) ==
    /\ vOut.pos = "idle"
    /\ vOut.calls < MaxCalls
    /\ vIn' = [exists |-> exists]
    /\ vOut' = [vOut EXCEPT !.pos = IF exists THEN "load" ELSE "idle",
                            !.calls = @ + 1, !.ok = FALSE]
    /\ UNCHANGED <<db_dir, rows, files, locked, sources, now, dbOk, enable_spectrogram, stats,
                   pc, pending, i, j, batch_size, progress, attempted, singles, ret,
                   last, runs, envn>>

\* the step at the current position completes: plt.figure opens a figure,
\* plt.close closes the current one and the call returns True
RenderStep ==
    /\ vOut.pos \notin {"idle"}
    /\ vOut' = IF vOut.pos = "figure"
               THEN [vOut EXCEPT !.pos = StepAfter(@), !.figs = Append(@, vOut.calls)]
               ELSE IF vOut.pos = "close"
               THEN [vOut EXCEPT !.pos = "idle", !.figs = CloseCurrent(@), !.ok = TRUE,
                                 !.rendered = @ + 1]
               ELSE [vOut EXCEPT !.pos = StepAfter(@)]
    /\ UNCHANGED <<db_dir, rows, files, locked, sources, now, dbOk, enable_spectrogram, stats,
                   pc, pending, i, j, batch_size, progress, attempted, singles, ret,
                   last, runs, envn, vIn>>

\* librosa.display.specshow raises AttributeError: the imshow fallback is taken
RenderFallback ==
    /\ vOut.pos = "show"
    /\ vOut' = [vOut EXCEPT !.pos = "imshow"]
    /\ UNCHANGED <<db_dir, rows, files, locked, sources, now, dbOk, enable_spectrogram, stats,
                   pc, pending, i, j, batch_size, progress, attempted, singles, ret,
                   last, runs, envn, vIn>>

\* the step at the current position raises (plt.figure before or after the
\* figure exists): the handler runs and the call returns False
RenderRaise(created) ==
    /\ vOut.pos \notin {"idle"}
    /\ created => vOut.pos = "figure"
    /\ vOut' = [vOut EXCEPT !.pos = "idle", !.ok = FALSE, !.raisedAt = vOut.pos,
                            !.figs = HandlerFigures(IF created THEN Append(@, vOut.calls)
                                                    ELSE @)]
    /\ UNCHANGED <<db_dir, rows, files, locked, sources, now, dbOk, enable_spectrogram, stats,
                   pc, pending, i, j, batch_size, progress, attempted, singles, ret,
                   last, runs, envn, vIn>>

NextRender ==
    \/ \E exists \in BOOLEAN : RenderCall(exists)
    \/ RenderStep
    \/ RenderFallback
    \/ \E created \in BOOLEAN : RenderRaise(created)

SpecRender == InitRender /\ [][NextRender]_vars

\* --------------------------------------- concurrent runs for one detection
\* Several managers (processes) run the pipeline for detection 1.  A run is
\* the steps fetch/validate/locate, extract, render, update; steps of
\* different runs interleave.  vIn.enable[p] is enable_spectrogram of manager
\* p; vOut.proc[p] holds the locals of its run, vOut.written the path pairs
\* runs have begun to write, vOut.overlap whether an update happened while
\* another run was under way.
Procs == 1..NumProc

ConcId == 1

\* variant: one UPDATE statement per column
UpdateStatements_PerColumn == <<{"audio_segment_path"}, {"spectrogram_path"}>>

\* the UPDATE statements of _update_detection_paths and the columns each sets
UpdateStatements == <<{"audio_segment_path", "spectrogram_path"}>>

\* one UPDATE ... SET cols WHERE id = detection_id, committed
WriteColumns(rw, detection_id, cols, audio_path, spectrogram_path) ==
    [rw EXCEPT ![detection_id].audio_segment_path =
                  IF "audio_segment_path" \in cols THEN audio_path ELSE @,
               ![detection_id].spectrogram_path =
                  IF "spectrogram_path" \in cols THEN spectrogram_path ELSE @]

IdleProc ==
    [pos |-> "idle", audio_success |-> FALSE, rel |-> NullPath,
     audio_path |-> NullPath, spectrogram_path |-> NullPath, stmt |-> 0]

InitConcurrent ==
    /\ PipelineInit
    /\ enable_spectrogram = TRUE
    /\ rows = [id \in Ids |-> Detection(id, "valid")]
    /\ \E en \in [Procs -> BOOLEAN] : vIn = [enable |-> en]
    /\ vOut = [proc |-> [p \in Procs |-> IdleProc], written |-> {}, overlap |-> FALSE,
               started |-> 0]

\* lines 152-172: the validation and the lookup of the source file
ConcStart(p) ==
    /\ vOut.proc[p].pos = "idle"
    /\ vOut.started < MaxConcRuns
    /\ validate_file_paths(rows[ConcId], sources).valid
    /\ find_source_audio_file(rows[ConcId].filename.s, sources) # {}
    /\ vOut' = [vOut EXCEPT !.proc[p] = [IdleProc EXCEPT !.pos = "extract"],
                            !.started = @ + 1]
    /\ UNCHANGED <<db_dir, rows, files, locked, sources, now, dbOk, enable_spectrogram, stats,
                   pc, pending, i, j, batch_size, progress, attempted, singles, ret,
                   last, runs, envn, vIn>>

\* lines 174-192: generate_segment
ConcExtract(p, fault) ==
    /\ vOut.proc[p].pos = "extract"
    /\ \E seg \in {generate_segment(
                      find_source_audio_file(rows[ConcId].filename.s, sources),
                      generate_session_directory_name(rows[ConcId].session_name.s),
                      ConcId, rows[ConcId].common_name, rows[ConcId].confidence,
                      files, locked, now, fault)} :
         /\ files' = seg.files
         /\ vOut' = [vOut EXCEPT !.proc[p] =
                       [@ EXCEPT !.pos = IF vIn.enable[p] /\ seg.ok THEN "render"
                                         ELSE "update",
                                 !.audio_success = seg.ok,
                                 !.rel = seg.rel,
                                 !.audio_path = IF seg.ok THEN seg.rel ELSE NullPath]]
    /\ UNCHANGED <<db_dir, rows, locked, sources, now, dbOk, enable_spectrogram, stats,
                   pc, pending, i, j, batch_size, progress, attempted, singles, ret,
                   last, runs, envn, vIn>>

\* lines 194-213: generate_spectrogram on the segment of this run
ConcRender(p, fault) ==
    /\ vOut.proc[p].pos = "render"
    /\ \E spec \in {generate_spectrogram(
                       resolve_relative_path(vOut.proc[p].rel),
                       generate_session_directory_name(rows[ConcId].session_name.s),
                       ConcId, rows[ConcId].common_name, rows[ConcId].confidence,
                       files, fault)} :
         /\ files' = spec.files
         /\ vOut' = [vOut EXCEPT !.proc[p] =
                       [@ EXCEPT !.pos = "update",
                                 !.spectrogram_path = SpectrogramPath(spec.ok, spec.rel)]]
    /\ UNCHANGED <<db_dir, rows, locked, sources, now, dbOk, enable_spectrogram, stats,
                   pc, pending, i, j, batch_size, progress, attempted, singles, ret,
                   last, runs, envn, vIn>>

\* lines 215-218: the next UPDATE statement of _update_detection_paths is
\* executed and committed, or the store raises and the update is given up
ConcUpdate(p, fails) ==
    /\ vOut.proc[p].pos = "update"
    /\ \E k \in {vOut.proc[p].stmt + 1} :
         /\ rows' = IF fails THEN rows
                    ELSE WriteColumns(rows, ConcId, UpdateStatements[k],
                                      vOut.proc[p].audio_path,
                                      vOut.proc[p].spectrogram_path)
         /\ vOut' = [vOut EXCEPT
                       !.proc[p] = IF fails \/ k = Len(UpdateStatements) THEN IdleProc
                                   ELSE [@ EXCEPT !.stmt = k],
                       !.written = IF fails THEN @
                                   ELSE @ \cup {<<vOut.proc[p].audio_path,
                                                  vOut.proc[p].spectrogram_path>>},
                       !.overlap = @ \/ (~fails /\ \E q \in Procs \ {p} :
                                                     vOut.proc[q].pos # "idle")]
    /\ UNCHANGED <<db_dir, files, locked, sources, now, dbOk, enable_spectrogram, stats,
                   pc, pending, i, j, batch_size, progress, attempted, singles, ret,
                   last, runs, envn, vIn>>

NextConcurrent ==
    \/ \E p \in Procs : ConcStart(p)
    \/ \E p \in Procs, fault \in {{}, {"extract"}} : ConcExtract(p, fault)
    \/ \E p \in Procs, fault \in {{}, {"render"}} : ConcRender(p, fault)
    \/ \E p \in Procs, fails \in BOOLEAN : ConcUpdate(p, fails)

SpecConcurrent == InitConcurrent /\ [][NextConcurrent]_vars

\* ------------------------------------------ database file in any directory
\* the names the directory of the database file takes: the default one
\* (<project root>/database/result.db) and another one
DbDirNames == {"database", "data"}

\* a manager built on a database file in either directory, every row valid
InitDbDir ==
    /\ db_dir \in DbDirNames
    /\ files = {}
    /\ locked = {}
    /\ sources = {SourceFile(s) : s \in Stems}
    /\ now = 1
    /\ dbOk = TRUE
    /\ stats = InitStats
    /\ pc = "idle"
    /\ pending = <<>>
    /\ i = 0
    /\ j = 0
    /\ batch_size = 1
    /\ progress = <<0, 0>>
    /\ attempted = <<>>
    /\ singles = 0
    /\ ret = NoRet
    /\ last = NoRun
    /\ runs = 0
    /\ envn = 0
    /\ enable_spectrogram \in BOOLEAN
    /\ rows = [id \in Ids |-> Detection(id, "valid")]
    /\ vIn = NoDetection
    /\ vOut = NoCall

SpecDbDir == InitDbDir /\ [][Next]_vars

\* ---------------------------------------------------------------- claims
HasRule(errors, rule) == \E k \in 1..Len(errors) : errors[k].rule = rule

HasMissing(errors, field) ==
    \E k \in 1..Len(errors) : errors[k] = Err("missing_field", field)

FieldsPresent(d) == \A k \in 1..Len(RequiredFields) : d[RequiredFields[k]].t # "null"

TimesParse(d) ==
    /\ _parse_time_value(d.start_time_seconds).ok
    /\ _parse_time_value(d.end_time_seconds).ok

\* the rules a detection violates, each with the entry that reports it
RuleViolated(d, rule) ==
    CASE rule = "source_not_found" ->
           d.filename.t = "str" /\ find_source_audio_file(d.filename.s, sources) = {}
      [] rule = "negative_start" ->
           /\ _parse_time_value(d.start_time_seconds).ok
           /\ _parse_time_value(d.start_time_seconds).v < 0
      [] rule = "end_before_start" ->
           /\ TimesParse(d)
           /\ _parse_time_value(d.end_time_seconds).v
                <= _parse_time_value(d.start_time_seconds).v
      [] rule = "blank_session" ->
           d.session_name.t = "str" /\ Strip(d.session_name.s) = <<>>

ValueRules == {"source_not_found", "negative_start", "end_before_start", "blank_session"}

\* C10 as stated: after a call of validate_file_paths the returned list has an
\* entry for every rule the detection violates (each missing required field,
\* source not locatable, start < 0, end <= start, blank session name),
\* whatever else is violated at the same time.
C10_AllRulesListed ==
    vOut # NoCall =>
       /\ \A k \in 1..Len(RequiredFields) :
            vIn[RequiredFields[k]].t = "null" => HasMissing(vOut.errors, RequiredFields[k])
       /\ \A rule \in ValueRules : RuleViolated(vIn, rule) => HasRule(vOut.errors, rule)

\* C10 amended: when a required field is missing the list names exactly the
\* missing fields, one entry each, and nothing else; when all required fields
\* are present and both times parse, the list has an entry for every violated
\* rule among source not locatable, start < 0, end <= start and blank session
\* name, and no entry for a rule that is not violated.
C10_RulesListedWhenChecked ==
    vOut # NoCall =>
       /\ ~FieldsPresent(vIn) =>
            /\ \A k \in 1..Len(RequiredFields) :
                 vIn[RequiredFields[k]].t = "null"
                   <=> HasMissing(vOut.errors, RequiredFields[k])
            /\ \A k \in 1..Len(vOut.errors) : vOut.errors[k].rule = "missing_field"
            /\ Len(vOut.errors)
                 = Cardinality({k \in 1..Len(RequiredFields) :
                                  vIn[RequiredFields[k]].t = "null"})
       /\ FieldsPresent(vIn) /\ TimesParse(vIn) =>
            /\ \A rule \in ValueRules :
                 RuleViolated(vIn, rule) <=> HasRule(vOut.errors, rule)
            /\ Len(vOut.errors)
                 = Cardinality({rule \in ValueRules : RuleViolated(vIn, rule)})
       /\ vOut.valid <=> vOut.errors = <<>>

\* a call that reported four violated rules at once
C10_Witness ==
    /\ vOut # NoCall
    /\ FieldsPresent(vIn)
    /\ \A rule \in ValueRules : RuleViolated(vIn, rule) /\ HasRule(vOut.errors, rule)

\* the artifact file a stored path refers to (below the artifacts root)
FileOf(path) == [path EXCEPT !.root = DbDirName]

PendingIds(p) == {p[k].id : k \in 1..Len(p)}

NullPathIds == {id \in DOMAIN rows : rows[id].audio_segment_path = NullPath}

\* C1: batch isolation.  In a bulk run every item of the pending list is
\* attempted in turn whatever happened to the items before it, and the run
\* returns only after the last one; a failing item adds exactly one entry,
\* carrying its id, to stats.errors and counts as one error; an item that is
\* valid, whose row exists and that is struck by no fault of extraction,
\* persistence or lookup succeeds and has its path persisted.
C1_BatchIsolation ==
    [][(pc = "bulk" /\ runs' = runs + 1) =>
         LET d == pending[Len(attempted) + 1]
             n == Len(stats.errors)
         IN  /\ last'.id = d.id
             /\ attempted' = Append(attempted, [id |-> d.id, ok |-> last'.ok])
             /\ stats'.processed_count = stats.processed_count + 1
             /\ IF last'.ok
                THEN /\ stats'.errors = stats.errors
                     /\ stats'.error_count = stats.error_count
                     /\ stats'.success_count = stats.success_count + 1
                ELSE /\ Len(stats'.errors) = n + 1
                     /\ SubSeq(stats'.errors, 1, n) = stats.errors
                     /\ stats'.errors[n + 1].id = d.id
                     /\ stats'.error_count = stats.error_count + 1
                     /\ stats'.success_count = stats.success_count
             /\ (/\ validate_file_paths(d, sources).valid
                 /\ last'.fault \subseteq {"render"}
                 /\ dbOk
                 /\ d.id \in DOMAIN rows)
                  => /\ last'.ok
                     /\ last'.audio_path # NullPath
                     /\ rows'[d.id].audio_segment_path = last'.audio_path
                     /\ FileOf(last'.audio_path) \in files'
             /\ pc' = "idle" => Len(attempted') = Len(pending)
      ]_vars

\* a finished bulk run over three items whose middle item had no source file
C1_Witness ==
    /\ pc = "idle"
    /\ ret.kind = "bulk"
    /\ Len(attempted) = 3
    /\ attempted[1].ok /\ ~attempted[2].ok /\ attempted[3].ok
    /\ stats.total_pending = 3
    /\ stats.success_count = 2
    /\ stats.error_count = 1
    /\ Len(stats.errors) = 1
    /\ stats.errors[1].id = attempted[2].id
    /\ HasRule(stats.errors[1].errs, "source_not_found")

\* C2: a pipeline run reports success exactly when the audio extraction
\* succeeded and the update affected the detection's row; when the row has
\* vanished the run is a failure counted in error_count, not in
\* success_count, and no row is created.
C2_SuccessIffAudioAndPersist ==
    [][runs' = runs + 1 =>
         LET id == last'.id
             affected == dbOk /\ "persist" \notin last'.fault /\ id \in DOMAIN rows
         IN  /\ last'.ok <=> (last'.audio_success /\ last'.step = "persist" /\ affected)
             /\ last'.audio_success => FileOf(last'.audio_path) \in files'
             /\ last'.ok => rows'[id].audio_segment_path = last'.audio_path
             /\ DOMAIN rows' = DOMAIN rows
             /\ pc = "idle" => ret'.ok = last'.ok
             /\ id \notin DOMAIN rows =>
                  /\ ~last'.ok
                  /\ stats'.error_count = stats.error_count + 1
                  /\ stats'.success_count = stats.success_count
                  /\ stats'.errors[Len(stats'.errors)].id = id
      ]_vars

\* a run whose extraction succeeded but whose row had been deleted meanwhile
C2_Witness ==
    /\ last.step = "persist"
    /\ last.audio_success
    /\ ~last.update_success
    /\ dbOk
    /\ last.id \notin DOMAIN rows
    /\ ~last.ok
    /\ last.msg.kind = "db_update_failed"
    /\ stats.error_count = 1
    /\ stats.success_count = 0

\* C3: when extraction and persist succeed and rendering is disabled or
\* fails, the item is a success: counted in success_count and audio_success,
\* no error counted or recorded, audio path persisted, spectrogram_path NULL.
C3_SpectrogramOptional ==
    [][(/\ runs' = runs + 1
        /\ last'.audio_success
        /\ last'.update_success
        /\ (~enable_spectrogram \/ "render" \in last'.fault)) =>
         LET id == last'.id
         IN  /\ last'.ok
             /\ ~last'.spec_success
             /\ pc = "idle" => ret'.ok
             /\ stats'.success_count = stats.success_count + 1
             /\ stats'.audio_success = stats.audio_success + 1
             /\ stats'.spectrogram_success = stats.spectrogram_success
             /\ stats'.error_count = stats.error_count
             /\ stats'.errors = stats.errors
             /\ rows'[id].audio_segment_path = last'.audio_path
             /\ last'.audio_path \notin {NullPath, EmptyPath}
             /\ rows'[id].spectrogram_path = NullPath
      ]_vars

\* a successful item whose rendering failed
C3_Witness ==
    /\ enable_spectrogram
    /\ last.fault = {"render"}
    /\ last.ok
    /\ ~last.spec_success
    /\ last.id \in DOMAIN rows
    /\ rows[last.id].audio_segment_path = last.audio_path
    /\ rows[last.id].spectrogram_path = NullPath
    /\ stats.errors = <<>>
    /\ stats.success_count = 1

\* C4: a bulk run fetches exactly the rows that are pending at its start,
\* each once, in ascending created_at order, attempts them in that order in
\* batches of at most batch_size items, reports processed/total after each
\* batch and returns after the last batch with progress total/total; what is
\* done to an item is the per-detection pipeline on that item and does not
\* depend on the batch size or on the position in the batch.
C4_OrderAndBatches ==
    [][/\ (pc = "idle" /\ pc' = "bulk") =>
            /\ PendingIds(pending') = NullPathIds
            /\ Len(pending') = Cardinality(NullPathIds)
            /\ \A a, b \in 1..Len(pending') :
                 a < b => pending'[a].created_at <= pending'[b].created_at
            /\ \A k \in 1..Len(pending') : pending'[k] = rows[pending'[k].id]
            /\ attempted' = <<>>
            /\ batch_size' >= 1
       /\ (pc = "bulk" /\ runs' = runs + 1) =>
            LET total == Len(pending)
                m == Len(attempted) + 1
            IN  /\ Len(attempted') = m
                /\ attempted'[m].id = pending[m].id
                /\ SubSeq(attempted', 1, m - 1) = attempted
                /\ \E fault \in Faults, clock \in now..MaxClock :
                     LET r == _process_single_detection(pending[m], fault, clock)
                     IN  /\ rows' = r.rows
                         /\ files' = r.files
                         /\ last' = r.loc
                         /\ attempted'[m].ok = r.ok
                /\ IF m % batch_size = 0 \/ m = total
                   THEN /\ progress' = <<m, total>>
                        /\ m - progress[1] \in 1..batch_size
                   ELSE progress' = progress
                /\ pc' = "idle" <=> m = total
                /\ pc' = "idle" => progress' = <<total, total>> /\ ret'.kind = "bulk"
      ]_vars

\* a finished bulk run over three detections
C4_Witness ==
    /\ pc = "idle"
    /\ ret.kind = "bulk"
    /\ Len(attempted) = 3
    /\ progress = <<3, 3>>
    /\ stats.total_pending = 3
    /\ stats.processed_count = 3

\* the step is the start of a bulk call
IsBulkStart == pc = "idle" /\ singles' = singles /\ envn' = envn

\* C5: the bulk call never takes up a detection whose audio_segment_path is
\* non-null when the list is fetched; the single-item call runs the pipeline
\* for an existing id whatever its audio_segment_path; and with no external
\* change, a bulk call that directly follows a bulk run takes up exactly the
\* detections that run did not complete successfully.
C5_BulkSkipsProcessed ==
    [][/\ IsBulkStart =>
            /\ \A k \in 1..Len(pending') :
                 /\ pending'[k].id \in DOMAIN rows
                 /\ rows[pending'[k].id].audio_segment_path = NullPath
            /\ dbOk /\ pc' = "bulk" => PendingIds(pending') = NullPathIds
            /\ pc' = "idle" => pending' = <<>> /\ (dbOk => NullPathIds = {})
            /\ (envn = 0 /\ ret.kind = "bulk") =>
                 NullPathIds = {attempted[k].id : k \in {x \in 1..Len(attempted) :
                                                          ~attempted[x].ok}}
       /\ (pc = "idle" /\ singles' = singles + 1 /\ dbOk
             /\ ret'.msg.id \in DOMAIN rows) =>
            /\ runs' = runs + 1
            /\ last'.id = ret'.msg.id
            /\ stats'.processed_count = stats.processed_count + 1
      ]_vars

\* a second bulk run has started and holds only what the first one left
C5_Witness ==
    /\ pc = "bulk"
    /\ attempted = <<>>
    /\ envn = 0
    /\ singles = 0
    /\ stats.total_pending = 3
    /\ stats.success_count \in 1..2
    /\ Len(pending) = 3 - stats.success_count

\* C6 as stated: a single-item call that answers "not found" was given an id
\* without a row, ran no step of the pipeline and left the statistics alone;
\* the message is given for no other outcome.
C6_NotFoundOnlyWhenAbsent ==
    [][(pc = "idle" /\ singles' = singles + 1 /\ ret'.msg.kind = "not_found") =>
         /\ ret'.msg.id \notin DOMAIN rows
         /\ ~ret'.ok
         /\ stats' = stats
         /\ runs' = runs
         /\ rows' = rows
         /\ files' = files
      ]_vars

\* C7 as stated: every row with a non-null audio_segment_path refers to an
\* existing audio file.
C7_PathHasFile ==
    \A id \in DOMAIN rows :
       rows[id].audio_segment_path # NullPath =>
          FileOf(rows[id].audio_segment_path) \in files

\* C8: a successful run persists the path of the file it wrote and adds no
\* other audio file; two successive successful runs for the same id, neither
\* meeting a locked file, persist the same path and the second leaves the
\* audio files of that id as the first left them, a single file when none
\* existed before the first run.
C8_IdempotentOverwrite ==
    [][runs' = runs + 1 =>
         LET id == last'.id
         IN  /\ last'.ok =>
                  /\ rows'[id].audio_segment_path = last'.audio_path
                  /\ FileOf(last'.audio_path) \in files'
                  /\ AudioArtifacts(files', id) \ AudioArtifacts(files, id)
                       \subseteq {FileOf(last'.audio_path)}
             /\ (last.id = id /\ last.ok /\ last'.ok /\ ~last.denied /\ ~last'.denied) =>
                  /\ last'.audio_path = last.audio_path
                  /\ AudioArtifacts(files', id) = AudioArtifacts(files, id)
                  /\ last.pre = {} => AudioArtifacts(files', id) = {FileOf(last'.audio_path)}
      ]_vars

\* two runs, both successful, the second over the file of the first
C8_Witness ==
    /\ stats.processed_count = 2
    /\ stats.success_count = 2
    /\ last.ok
    /\ ~last.denied
    /\ last.pre = {FileOf(last.audio_path)}
    /\ AudioArtifacts(files, last.id) = last.pre
    /\ rows[last.id].audio_segment_path = last.audio_path

\* C9: when the target audio file exists and is locked, and neither decode
\* nor write fails, the extraction succeeds: the segment is written to the
\* sibling named with the timestamp, the locked file stays, and the path
\* returned and persisted is the sibling's.
C9_LockedFallback ==
    [][(runs' = runs + 1 /\ last'.step = "persist") =>
         LET id == last'.id
             T == {f \in files \cap locked :
                     f.kind = "audio_segments" /\ f.id = id /\ f.ts = 0}
         IN  (T # {} /\ "extract" \notin last'.fault) =>
                /\ last'.denied
                /\ last'.audio_success
                /\ last'.audio_path.ts \in 1..MaxClock
                /\ last'.audio_path.ts = now'
                /\ [FileOf(last'.audio_path) EXCEPT !.ts = 0] \in T
                /\ FileOf(last'.audio_path) \in files'
                /\ T \subseteq files'
                /\ last'.update_success =>
                     /\ last'.ok
                     /\ rows'[id].audio_segment_path = last'.audio_path
      ]_vars

\* a successful run that met a locked target and persisted the sibling
C9_Witness ==
    /\ last.denied
    /\ last.ok
    /\ last.audio_path.ts >= 1
    /\ rows[last.id].audio_segment_path = last.audio_path
    /\ FileOf(last.audio_path) \in files
    /\ [FileOf(last.audio_path) EXCEPT !.ts = 0] \in files \cap locked

\* number of entries of a rule in an error list
RuleCount(errors, rule) == Cardinality({k \in 1..Len(errors) : errors[k].rule = rule})

\* C11 as stated: with all required fields present, the call fails with a
\* negative-start entry whenever the start parses to a value below 0, and with
\* an ordering entry whenever the parsed end is at most the parsed start.
C11_RangeViolationsListed ==
    (vOut # NoCall /\ FieldsPresent(vIn)) =>
       /\ RuleViolated(vIn, "negative_start") =>
            ~vOut.valid /\ HasRule(vOut.errors, "negative_start")
       /\ RuleViolated(vIn, "end_before_start") =>
            ~vOut.valid /\ HasRule(vOut.errors, "end_before_start")

\* C11 amended: with all required fields present and both times parsing, the
\* call fails with exactly one negative-start entry iff start < 0 and with
\* exactly one ordering entry, distinct from it, iff end <= start, both when
\* both hold; when a time does not parse the call fails with one time-error
\* entry and neither range entry.
C11_RangeViolationsWhenParsed ==
    (vOut # NoCall /\ FieldsPresent(vIn)) =>
       /\ TimesParse(vIn) =>
            /\ RuleCount(vOut.errors, "negative_start")
                 = (IF RuleViolated(vIn, "negative_start") THEN 1 ELSE 0)
            /\ RuleCount(vOut.errors, "end_before_start")
                 = (IF RuleViolated(vIn, "end_before_start") THEN 1 ELSE 0)
            /\ RuleCount(vOut.errors, "time_parse") = 0
            /\ (RuleViolated(vIn, "negative_start")
                  \/ RuleViolated(vIn, "end_before_start")) => ~vOut.valid
       /\ ~TimesParse(vIn) =>
            /\ ~vOut.valid
            /\ RuleCount(vOut.errors, "time_parse") = 1
            /\ RuleCount(vOut.errors, "negative_start") = 0
            /\ RuleCount(vOut.errors, "end_before_start") = 0

\* a call with start = -3 and end = -5 that listed both range violations
C11_Witness ==
    /\ vOut # NoCall
    /\ vIn.start_time_seconds = Num(0 - 3 * Unit)
    /\ vIn.end_time_seconds = Num(0 - 5 * Unit)
    /\ FieldsPresent(vIn)
    /\ ~vOut.valid
    /\ RuleCount(vOut.errors, "negative_start") = 1
    /\ RuleCount(vOut.errors, "end_before_start") = 1

\* C12: parser equivalence.  For minutes m and seconds s the texts "<m>m<s>s",
\* "<m>:<s>", the decimal texts of m * 60 + s and the number m * 60 + s all
\* parse to m * 60 + s seconds; a number is returned with its value unchanged.
C12_ParserEquivalence ==
    vOut # NoParse =>
       /\ vIn.form \in TimeForms => vOut = ParseOk((vIn.m * 60 + vIn.s) * Unit)
       /\ vIn.value.t = "num" => vOut = ParseOk(vIn.value.n)

\* "10m26s" was parsed to 626 seconds
C12_Witness ==
    /\ vIn.value = Str(<<"1", "0", "m", "2", "6", "s">>)
    /\ vOut = ParseOk(626 * Unit)

\* the three text forms of a time, on a stripped text
IsMinSecText(t) ==
    \E p \in 1..Len(t) :
       /\ t[p] = "m"
       /\ p < Len(t)
       /\ t[Len(t)] = "s"
       /\ PyInt(SubSeq(t, 1, p - 1)).ok
       /\ PyInt(SubSeq(t, p + 1, Len(t) - 1)).ok

IsColonText(t) ==
    \E p \in 1..Len(t) :
       /\ t[p] = ":"
       /\ PyInt(SubSeq(t, 1, p - 1)).ok
       /\ PyInt(SubSeq(t, p + 1, Len(t))).ok

IsFloatText(t) == PyFloat(t).ok

IsTimeText(t) == IsMinSecText(t) \/ IsFloatText(t) \/ IsColonText(t)

\* C13 as stated, for the parser: a value that is not numeric and is no text
\* of one of the three forms "<int>m<int>s", float literal, "<int>:<int>"
\* makes _parse_time_value fail.
C13_UnparseableFails ==
    (vOut # NoParse /\ vIn.value.t # "num") =>
       ((vIn.value.t = "str" => ~IsTimeText(Strip(vIn.value.s))) => ~vOut.ok)

\* the pipeline half of C13: a detection whose required fields are present
\* and whose start or end does not parse is a validation failure of that
\* item alone: one error entry with its id, no extraction, nothing persisted,
\* and a bulk run goes on to the next item.
BadTimeIsItemFailure ==
    [][(runs' = runs + 1 /\ last'.id \in DOMAIN rows
          /\ FieldsPresent(rows[last'.id]) /\ ~TimesParse(rows[last'.id])) =>
         /\ ~last'.ok
         /\ last'.step = "validate"
         /\ last'.msg.kind = "validation"
         /\ last'.msg.id = last'.id
         /\ HasRule(last'.msg.errs, "time_parse")
         /\ stats'.errors = Append(stats.errors, last'.msg)
         /\ stats'.error_count = stats.error_count + 1
         /\ rows' = rows
         /\ files' = files
         /\ (pc = "bulk" /\ Len(attempted') < Len(pending)) => pc' = "bulk"
      ]_vars

\* C14: context padding.  For a window with 0 <= start < end the requested
\* slice begins at start - 5 s, or at 0 when that is negative, and ends at
\* end + 5 s: it contains [start, end], is clamped at the lower bound only and
\* has positive duration; for [100, 102] it is [95, 107].
C14_ContextPadding ==
    (vOut # NoWindow /\ 0 <= vIn.start /\ vIn.start < vIn.end) =>
       /\ vOut.offset = (IF vIn.start >= 5 * Unit THEN vIn.start - 5 * Unit ELSE 0)
       /\ vOut.offset + vOut.duration = vIn.end + 5 * Unit
       /\ vOut.offset >= 0
       /\ vOut.offset <= vIn.start
       /\ vOut.duration > 0
       /\ (vIn.start = 100 * Unit /\ vIn.end = 102 * Unit) =>
            vOut = [offset |-> 95 * Unit, duration |-> 12 * Unit]

\* the slice of a window that starts 2.5 s into the recording began at 0
C14_Witness ==
    /\ vIn.start = 5 * (Unit \div 2)
    /\ vIn.end = 7 * (Unit \div 2)
    /\ vOut = [offset |-> 0, duration |-> 17 * (Unit \div 2)]

\* position of an extension in the extension order, of a directory in the
\* order of the priority directories (0: no priority directory)
ExtRank(e) == CHOOSE k \in 1..Len(AudioExtensions) : AudioExtensions[k] = e

DirRank(d) == IF \E k \in 1..Len(SearchDirs) : SearchDirs[k] = d
              THEN CHOOSE k \in 1..Len(SearchDirs) : SearchDirs[k] = d ELSE 0

\* the files named stem.<ext>, in a priority directory and anywhere
PriorityNamed(stem) == {f \in vIn.tree : f.stem = stem /\ DirRank(f.dir) # 0}

Named(stem) == {f \in vIn.tree : f.stem = stem}

\* the search order of the claim for a stem
LocateOrder(stem, file) ==
    IF PriorityNamed(stem) # {}
    THEN /\ file \in PriorityNamed(stem)
         /\ \A g \in PriorityNamed(stem) :
               \/ DirRank(file.dir) < DirRank(g.dir)
               \/ DirRank(file.dir) = DirRank(g.dir) /\ ExtRank(file.ext) <= ExtRank(g.ext)
    ELSE IF Named(stem) # {}
    THEN /\ file \in Named(stem)
         /\ \A g \in Named(stem) : ExtRank(file.ext) <= ExtRank(g.ext)
    ELSE file = NoFile

\* C15: find_source_audio_file(stem) returns the first existing candidate,
\* directory order before extension order over completed and inbox; a match
\* of the tree search, in extension order, only when there is no such
\* candidate; and None when no file stem.<ext> exists anywhere.
C15_SearchOrder == vOut.called => LocateOrder(vIn.stem, vOut.file)

\* the search order holds for every stem without a wildcard character
LiteralStemSearchOrder ==
    (vOut.called /\ ~Contains(vIn.stem, "?")) => LocateOrder(vIn.stem, vOut.file)

\* the characters of [A-Za-z0-9_-]
IsNameChar(c) == c \in Lower \cup Upper \cup {Digits[k] : k \in 1..10} \cup {"_", "-"}

\* C16: generate_session_directory_name maps each character outside
\* [A-Za-z0-9_-] to "_", keeps the others unchanged and in order, and keeps
\* the first 100 characters: the output has length min(len(name), 100), has
\* only characters of [A-Za-z0-9_-], and is a fixed point of the function.
C16_Sanitized ==
    vOut.called =>
       /\ Len(vOut.name) = (IF Len(vIn) < 100 THEN Len(vIn) ELSE 100)
       /\ \A k \in 1..Len(vOut.name) :
             /\ IsNameChar(vOut.name[k])
             /\ vOut.name[k] = (IF IsNameChar(vIn[k]) THEN vIn[k] ELSE "_")
       /\ generate_session_directory_name(vOut.name) = vOut.name

\* a name of 102 characters with unsafe characters was cut to 100 safe ones
C16_Witness ==
    /\ vOut.called
    /\ Len(vIn) = 102
    /\ vIn[2] = " "
    /\ Len(vOut.name) = 100
    /\ vOut.name[2] = "_"

\* the rows whose audio segment has been stored
StoredIds == {id \in DOMAIN rows : rows[id].audio_segment_path \notin {NullPath, EmptyPath}}

\* C17: the session directory is derived 1:1 from session_name: two
\* detections with different session_name values never have their artifacts
\* in the same session directory.
C17_OneSessionPerDirectory ==
    \A a \in StoredIds, b \in StoredIds :
       rows[a].session_name # rows[b].session_name =>
          rows[a].audio_segment_path.dir # rows[b].audio_segment_path.dir

\* detections of one session have their artifacts in one session directory
SameSessionSameDirectory ==
    \A a \in StoredIds, b \in StoredIds :
       rows[a].session_name = rows[b].session_name =>
          rows[a].audio_segment_path.dir = rows[b].audio_segment_path.dir

\* alphanumeric characters of the model alphabet (str.isalnum)
IsAlnum(c) == c \in Lower \cup Upper \cup {Digits[k] : k \in 1..10} \cup {"é", "カ", "ッ", "コ", "ー"}

KeptInSpecies(c) == IsAlnum(c) \/ c \in {"_", "-", "ー"}

\* number of characters of the id in the name: at least 3
IdWidth(id) == IF id < 1000 THEN 3 ELSE CHOOSE n \in 4..9 : Pow10(n - 1) <= id /\ id < Pow10(n)

\* the parts of a file name detection_<id>_<species>_<d.dd><ext>
NameParts(text, w) ==
    [prefix |-> SubSeq(text, 1, 10),
     id |-> SubSeq(text, 11, 10 + w),
     sep1 |-> text[11 + w],
     species |-> SubSeq(text, 12 + w, Len(text) - 9),
     sep2 |-> text[Len(text) - 8],
     whole |-> text[Len(text) - 7],
     point |-> text[Len(text) - 6],
     frac |-> SubSeq(text, Len(text) - 5, Len(text) - 4),
     ext |-> SubSeq(text, Len(text) - 3, Len(text))]

NamedAs(parts, id, species, confidence, ext) ==
    /\ parts.prefix = <<"d", "e", "t", "e", "c", "t", "i", "o", "n", "_">>
    /\ AllDigits(parts.id) /\ DigitsValue(parts.id) = id
    /\ parts.sep1 = "_"
    /\ parts.species = SelectSeq(species, KeptInSpecies)
    /\ parts.sep2 = "_"
    /\ IsDigit(parts.whole) /\ parts.point = "." /\ AllDigits(parts.frac)
    /\ 10 * (100 * DigitVal(parts.whole) + DigitsValue(parts.frac)) - confidence \in -5..5
    /\ parts.ext = ext

\* C18: the file name is detection_<id, at least 3 digits, zero-padded>_
\* <species without the characters that are not alphanumeric, "_", "-" or the
\* long-vowel mark>_<confidence with two decimals>, followed by .wav for the
\* audio segment and .png for the spectrogram; for id 7, "Common Cuckoo" and
\* 0.873 the stem is detection_007_CommonCuckoo_0.87.
C18_FilenameStem ==
    vOut.called =>
       /\ Len(vOut.text) >= 19 + IdWidth(vIn.id)
       /\ NamedAs(NameParts(vOut.text, IdWidth(vIn.id)), vIn.id, vIn.species,
                  vIn.confidence,
                  IF vIn.kind = "wav" THEN <<".", "w", "a", "v">>
                                      ELSE <<".", "p", "n", "g">>)
       /\ (vIn.id = 7 /\ vIn.confidence = 873 /\ Len(vIn.species) = 13 /\ vIn.species[1] = "C") =>
             SubSeq(vOut.text, 1, Len(vOut.text) - 4) =
                <<"d", "e", "t", "e", "c", "t", "i", "o", "n", "_", "0", "0", "7", "_",
                  "C", "o", "m", "m", "o", "n", "C", "u", "c", "k", "o", "o", "_",
                  "0", ".", "8", "7">>

\* the spectrogram of detection 7, "Common Cuckoo", 0.873 was named
\* detection_007_CommonCuckoo_0.87.png
C18_Witness ==
    /\ vIn.id = 7 /\ vIn.confidence = 873 /\ vIn.kind = "png"
    /\ vOut.text = <<"d", "e", "t", "e", "c", "t", "i", "o", "n", "_", "0", "0", "7", "_",
                     "C", "o", "m", "m", "o", "n", "C", "u", "c", "k", "o", "o", "_",
                     "0", ".", "8", "7", ".", "p", "n", "g">>

\* a path text in normal form: not empty, no backslash, no empty component
\* (leading, trailing or doubled "/"), no "." component unless it is "."
IsNormalPath(t) ==
    /\ t # <<>>
    /\ ~Contains(t, "\\")
    /\ t[1] # "/" /\ t[Len(t)] # "/"
    /\ \A k \in 1..(Len(t) - 1) : ~(t[k] = "/" /\ t[k + 1] = "/")
    /\ \A k \in 1..Len(t) :
          (t[k] = "." /\ (k = 1 \/ t[k - 1] = "/") /\ (k = Len(t) \/ t[k + 1] = "/"))
             => Len(t) = 1

\* the paths the round trips are claimed for: a path below the database
\* directory, a stored path in forward-slash form that is not absolute
InClaim ==
    \/ vIn.from = "absolute"
    \/ vIn.from = "relative" /\ ~Contains(vIn.path, "\\") /\ RootOf(vIn.path) = <<>>

WithPathsOf(row, other) ==
    [row EXCEPT !.audio_segment_path = other.audio_segment_path,
                !.spectrogram_path = other.spectrogram_path]

\* C20: frame of the pipeline on the record store.  A step of the single-item
\* or of the bulk call changes at most audio_segment_path and spectrogram_path
\* of the row whose id it processes: no other column, no row of another id,
\* and no row is inserted or deleted.
C20_Frame ==
    [][envn' = envn =>
         /\ DOMAIN rows' = DOMAIN rows
         /\ \A id \in DOMAIN rows :
               IF runs' = runs + 1 /\ id = last'.id
               THEN WithPathsOf(rows'[id], rows[id]) = rows[id]
               ELSE rows'[id] = rows[id]
      ]_vars

\* a run stored the paths of one detection while another row, still pending,
\* kept its null paths
C20_Witness ==
    /\ last.ok
    /\ last.id \in DOMAIN rows
    /\ rows[last.id].audio_segment_path = last.audio_path
    /\ rows[last.id].audio_segment_path # NullPath
    /\ rows[last.id].quality_status = "pending"
    /\ \E id \in DOMAIN rows : id # last.id /\ rows[id].audio_segment_path = NullPath

\* C21: processing order does not affect per-item results.  Two distinct
\* detections processed as a, b and as b, a (each run with the same faults and
\* the same clock reading in both orders) get the same per-item results, the
\* same final rows and the same set of artifact files.
C21_OrderIndependent ==
    vOut.phase = 6 =>
       /\ rows = vOut.ab.rows
       /\ files = vOut.ab.files
       /\ vOut.res[1] = vOut.res[4]
       /\ vOut.res[2] = vOut.res[3]

\* both orders were run for two detections of one session directory with
\* the same species and confidence; both succeeded, the first one under a
\* fallback name because its earlier file was locked
C21_Witness ==
    /\ vOut.phase = 6
    /\ vOut.res[1].ok /\ vOut.res[2].ok
    /\ rows[vIn.a].session_name = rows[vIn.b].session_name
    /\ rows[vIn.a].common_name = rows[vIn.b].common_name
    /\ rows[vIn.a].audio_segment_path.ts # 0
    /\ rows[vIn.b].audio_segment_path \notin {NullPath, EmptyPath}
    /\ rows[vIn.a].audio_segment_path # rows[vIn.b].audio_segment_path

\* the items of the bulk call that ended with the given verdict
AttemptedWith(ok) == {k \in 1..Len(attempted) : attempted[k].ok = ok}

\* the bulk call has returned and no other entry point was called since
BulkReturned == pc = "idle" /\ ret.kind = "bulk"

\* C22: the statistics returned by a bulk call describe that call only: the
\* counters and the errors list count exactly the items attempted in it,
\* whatever the manager has executed before.
C22_StatsOfThisInvocation ==
    BulkReturned =>
       /\ stats.processed_count = Len(attempted)
       /\ stats.success_count = Cardinality(AttemptedWith(TRUE))
       /\ stats.error_count = Cardinality(AttemptedWith(FALSE))
       /\ Len(stats.errors) = Cardinality(AttemptedWith(FALSE))
       /\ stats.audio_success <= Len(attempted)
       /\ stats.spectrogram_success <= Len(attempted)

\* the statistics returned by the first call on a manager describe that call
FirstBulkStatsOfThisInvocation ==
    (BulkReturned /\ singles = 0 /\ runs = Len(attempted)) =>
       /\ stats.processed_count = Len(attempted)
       /\ stats.success_count = Cardinality(AttemptedWith(TRUE))
       /\ stats.error_count = Cardinality(AttemptedWith(FALSE))
       /\ Len(stats.errors) = Cardinality(AttemptedWith(FALSE))

\* a failed item of a bulk call gets an entry of its own in the errors list
PerItemFailureListed ==
    [][(pc = "bulk" /\ runs' = runs + 1 /\ ~last'.ok) =>
          /\ Len(stats'.errors) = Len(stats.errors) + 1
          /\ stats'.errors[Len(stats'.errors)].id = last'.id
      ]_vars

\* C23: the errors list of the returned statistics is the authoritative
\* record of a bulk call: a failed item puts an entry into it, and so does a
\* failure to read the pending detections from the record store.
C23_ErrorsListAuthoritative ==
    [][/\ (pc = "bulk" /\ runs' = runs + 1 /\ ~last'.ok) =>
             /\ Len(stats'.errors) = Len(stats.errors) + 1
             /\ stats'.errors[Len(stats'.errors)].id = last'.id
       /\ (IsBulkStart /\ ~dbOk) => Len(stats'.errors) > Len(stats.errors)
      ]_vars

\* the two path columns of a row
PathsOf(row) == <<row.audio_segment_path, row.spectrogram_path>>

\* a run that returned at the validation or at the lookup of the source file
\* changed no row
ReturnBeforeExtractionKeepsRows ==
    [][(runs' = runs + 1 /\ last'.step \in {"validate", "locate"}) =>
          /\ ~last'.ok
          /\ rows' = rows
      ]_vars

\* C24: early exit leaves the row untouched.  When a run fails at the
\* validation, at the lookup of the source file or at the audio extraction,
\* no later step runs and both path columns of the row keep their values,
\* also when they were non-null from an earlier run.
C24_FailureKeepsPaths ==
    [][(runs' = runs + 1 /\ ~last'.audio_success /\ last'.id \in DOMAIN rows) =>
          /\ last'.step # "persist"
          /\ last'.id \in DOMAIN rows'
          /\ PathsOf(rows'[last'.id]) = PathsOf(rows[last'.id])
      ]_vars

\* C25: the render step runs only after a successful extraction of the same
\* run and both columns are written by one update, so every row with a
\* non-null spectrogram_path has a non-null audio_segment_path.
C25_SpectrogramImpliesAudio ==
    /\ last.spec_success => last.audio_success
    /\ last.spectrogram_path # NullPath => last.audio_path # NullPath
    /\ \A id \in DOMAIN rows :
          rows[id].spectrogram_path # NullPath => rows[id].audio_segment_path # NullPath

\* a row holds both paths, and another row that had them lost both in a run
\* whose extraction failed
C25_Witness ==
    /\ \E id \in DOMAIN rows :
          /\ rows[id].spectrogram_path # NullPath
          /\ rows[id].audio_segment_path # NullPath
    /\ last.step = "persist" /\ ~last.audio_success /\ last.update_success
    /\ last.pre # {}
    /\ rows[last.id].spectrogram_path = NullPath

\* C26: run-statistics invariants.  After any sequence of pipeline runs on
\* one manager processed_count = success_count + error_count, the errors list
\* has error_count entries, each with the id of its detection, and
\* spectrogram_success <= audio_success, success_count <= audio_success <=
\* processed_count; after a bulk run on a fresh manager processed_count is
\* the number of pending detections fetched.
C26_StatsInvariants ==
    /\ stats.processed_count = stats.success_count + stats.error_count
    /\ Len(stats.errors) = stats.error_count
    /\ \A k \in 1..Len(stats.errors) :
          stats.errors[k].id \in Ids /\ stats.errors[k].kind # "none"
    /\ stats.spectrogram_success <= stats.audio_success
    /\ stats.success_count <= stats.audio_success
    /\ stats.audio_success <= stats.processed_count
    /\ stats.processed_count = runs
    /\ (BulkReturned /\ singles = 0 /\ runs = Len(attempted) /\ runs > 0) =>
          /\ stats.total_pending = Len(attempted)
          /\ stats.processed_count = stats.total_pending

\* a bulk run on a fresh manager returned after one item succeeded with its
\* spectrogram and another failed
C26_Witness ==
    /\ BulkReturned /\ singles = 0 /\ runs = Len(attempted)
    /\ stats.processed_count = 2
    /\ stats.success_count = 1
    /\ stats.spectrogram_success = 1
    /\ stats.error_count = 1
    /\ stats.total_pending = 2

\* the name of an artifact without its extension and top directory
StemOf(path) == [path EXCEPT !.kind = "", !.root = ""]

\* the artifacts of a pair: a segment below audio_segments/ and an image
\* below spectrograms/, in session directories of the same name
Mirrored(audio, spectrogram) ==
    /\ audio.kind = "audio_segments"
    /\ spectrogram.kind = "spectrograms"
    /\ audio.dir = spectrogram.dir

\* C27 as stated: when both artifacts were generated in one run, the
\* spectrogram has the name of the audio file actually written, with .png,
\* in the session directory of the same name, also under the fallback name.
C27_SpectrogramMirrorsWritten ==
    (last.audio_success /\ last.spec_success) =>
       /\ Mirrored(last.audio_path, last.spectrogram_path)
       /\ StemOf(last.spectrogram_path) = StemOf(last.audio_path)

\* C27, amended: the spectrogram has the name that was requested for the
\* audio file, with .png, in the session directory of the same name; that is
\* the name of the written audio file unless it was written under the
\* fallback name, which carries a timestamp the spectrogram does not have.
C27_SpectrogramMirrorsRequested ==
    /\ (last.audio_success /\ last.spec_success) =>
          /\ Mirrored(last.audio_path, last.spectrogram_path)
          /\ StemOf(last.spectrogram_path) = StemOf([last.audio_path EXCEPT !.ts = 0])
          /\ last.spectrogram_path.ts = 0
          /\ last.audio_path.ts # 0 <=> last.denied
    /\ \A id \in DOMAIN rows :
          rows[id].spectrogram_path # NullPath =>
             /\ Mirrored(rows[id].audio_segment_path, rows[id].spectrogram_path)
             /\ StemOf(rows[id].spectrogram_path)
                  = StemOf([rows[id].audio_segment_path EXCEPT !.ts = 0])

\* a run wrote the segment under the fallback name and rendered its spectrogram
C27_Witness ==
    /\ last.audio_success /\ last.spec_success /\ last.denied
    /\ last.audio_path.ts # 0
    /\ last.update_success
    /\ rows[last.id].spectrogram_path = last.spectrogram_path

\* the open figures that calls of generate_spectrogram created
OwnFigures == {k \in 1..Len(vOut.figs) : vOut.figs[k] # 0}

\* C28: rendering-context release.  After every call of generate_spectrogram,
\* on every exit path, no figure created by the call remains open; inside a
\* call at most its own figure is open, so the number of open figures does
\* not grow over a run of any length.
C28_FiguresReleased ==
    /\ vOut.pos = "idle" => OwnFigures = {}
    /\ Cardinality(OwnFigures) <= 1
    /\ \A k \in OwnFigures : vOut.figs[k] = vOut.calls
    /\ Len(vOut.figs) <= MaxForeign + 1

\* the third call returned False after an exception raised once its figure
\* was open, following a call that succeeded; no figure is open
C28_Witness ==
    /\ vOut.pos = "idle"
    /\ vOut.calls = 3
    /\ vOut.rendered = 1
    /\ ~vOut.ok
    /\ vIn.exists
    /\ vOut.raisedAt = "savefig"
    /\ vOut.figs = <<>>

\* C29: atomic path write under concurrency.  While runs for the same
\* detection interleave, the pair (audio_segment_path, spectrogram_path) of
\* its row is the pair it had at the start or the complete pair of one run:
\* never the audio path of one run with the spectrogram path of another,
\* never a pair of which a run has written one column only.
C29_AtomicPair ==
    \/ PathsOf(rows[ConcId]) = <<NullPath, NullPath>>
    \/ PathsOf(rows[ConcId]) \in vOut.written

\* three different pairs have been written by overlapping runs, and the row
\* holds the pair of a run with both artifacts
C29_Witness ==
    /\ vOut.overlap
    /\ Cardinality(vOut.written) = 3
    /\ rows[ConcId].audio_segment_path # NullPath
    /\ rows[ConcId].spectrogram_path # NullPath
    /\ \A p \in Procs : vOut.proc[p].pos = "idle"


\* a run that wrote its segment and went on to the render step
RenderAfterExtraction ==
    /\ runs' = runs + 1
    /\ enable_spectrogram
    /\ last'.audio_success

\* C30: wherever the database file lies, the path handed to the renderer
\* after a successful extraction is the path of the file the extractor has
\* just written, so the render step finds its segment file.
C30_RendererGetsWrittenFile ==
    [][RenderAfterExtraction =>
         /\ resolve_relative_path(last'.audio_path) = FileOf(last'.audio_path)
         /\ resolve_relative_path(last'.audio_path) \in files'
         /\ "render" \notin last'.fault => last'.spec_success]_vars

\* what holds instead: the renderer gets the written file when the database
\* file lies in a directory named "database"
DefaultLocationRendererGetsWrittenFile ==
    [][(RenderAfterExtraction /\ db_dir = "database") =>
         /\ resolve_relative_path(last'.audio_path) = FileOf(last'.audio_path)
         /\ resolve_relative_path(last'.audio_path) \in files'
         /\ "render" \notin last'.fault => last'.spec_success]_vars

\* in any other directory the render step never succeeds
OtherLocationNeverRenders ==
    [][(RenderAfterExtraction /\ db_dir # "database") => ~last'.spec_success]_vars

====
